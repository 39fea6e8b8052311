------------------------ MODULE ScanControllerProofs ------------------------
(***************************************************************************)
(* Proofs about ScanController, for every set of scans, every mix of kinds, *)
(* every number of workers and every bound.                                *)
(***************************************************************************)
EXTENDS ScanController, TLAPS

-----------------------------------------------------------------------------
(* The handlers make statuses of statuses (ScanStatus).                    *)

(* setClusterScanStatusDisplay writes one of the states users know.        *)
LEMMA RefreshedType ==
    ASSUME NEW st \in Status, NEW strict \in BOOLEAN
    PROVE  Refreshed(st, strict) \in Status
<1>1. Verdict(st.summary, strict) \in {"error", "fail", "pass"}
  BY DEF Verdict
<1>2. ShownState(st, strict) \in
          {"none", "pending", "running", "reporting", "error", "fail", "pass"}
  <2>1. st.failed \in BOOLEAN /\ st.complete \in BOOLEAN
        /\ st.ran \in {"none", "Unknown", "True"}
    BY DEF Status
  <2> QED BY <1>1, <2>1 DEF ShownState
<1>3. ShownMoving(st) \in BOOLEAN
  BY DEF ShownMoving
<1> QED BY <1>2, <1>3 DEF Refreshed, Status

(* A refresh of the display touches the display only.                      *)
LEMMA RefreshedFields ==
    ASSUME NEW st \in Status, NEW strict \in BOOLEAN
    PROVE  LET new == Refreshed(st, strict)
           IN /\ new.pending = st.pending /\ new.created = st.created /\ new.ran = st.ran
              /\ new.complete = st.complete /\ new.failed = st.failed
              /\ new.alerted = st.alerted /\ new.lastRun = st.lastRun
              /\ new.next = st.next /\ new.summary = st.summary
              /\ new.observed = st.observed /\ new.rule = st.rule
              /\ new.shown = ShownState(st, strict)
  BY DEF Refreshed, Status

(* What the scan handler makes of a status.                                *)
LEMMA ScanStatusType ==
    ASSUME NEW st \in Status, NEW strict \in BOOLEAN
    PROVE  /\ Pended(st, strict) \in Status
           /\ Rejected(st, strict) \in Status
           /\ \A rule \in BOOLEAN : Launched(st, rule, strict) \in Status
           /\ [st EXCEPT !.observed = TRUE] \in Status
           /\ [st EXCEPT !.observed = FALSE] \in Status
<1>1. [st EXCEPT !.pending = TRUE] \in Status
  BY DEF Status
<1>2. Relisted(st) \in Status
  BY DEF Status, Relisted, Unconditioned
<1>3. [Relisted(st) EXCEPT !.failed = TRUE] \in Status
  BY <1>2 DEF Status
<1>4. ASSUME NEW rule \in BOOLEAN
      PROVE  [Relisted(st) EXCEPT !.created = TRUE, !.ran = "Unknown",
                                  !.lastRun = TRUE, !.rule = rule] \in Status
  BY <1>2 DEF Status
<1>5. /\ [st EXCEPT !.observed = TRUE] \in Status
      /\ [st EXCEPT !.observed = FALSE] \in Status
  BY DEF Status
<1> QED BY <1>1, <1>3, <1>4, <1>5, RefreshedType DEF Pended, Rejected, Launched

(* What the Job, Pod, scheduled-scan and metrics handlers make of it.      *)
LEMMA OutcomeStatusType ==
    ASSUME NEW st \in Status, NEW strict \in BOOLEAN
    PROVE  /\ \A done : Marked(st, done, strict) \in Status
           /\ \A summary \in Summaries : Completed(st, summary) \in Status
           /\ \A cron \in BOOLEAN : Retired(st, cron, strict) \in Status
           /\ Renewed(st) \in Status
           /\ \A configured \in BOOLEAN : AlertResolved(st, configured) \in Status
           /\ Elapsed(st) \in Status
<1>1. ASSUME NEW done
      PROVE  [st EXCEPT !.ran = "True", !.failed = @ \/ done # "true"] \in Status
  BY DEF Status
<1>2. ASSUME NEW summary \in Summaries
      PROVE  Completed(st, summary) \in Status
  BY DEF Status, Completed
<1>3. ASSUME NEW cron \in BOOLEAN
      PROVE  Retired(st, cron, strict) \in Status
  <2> DEFINE told == [st EXCEPT !.alerted = IF st.failed THEN @ ELSE "Unknown",
                                !.observed = TRUE]
  <2>1. told \in Status
    BY DEF Status
  <2>2. Refreshed(told, strict) \in Status
    BY <2>1, RefreshedType
  <2> HIDE DEF told
  <2>3. [Refreshed(told, strict) EXCEPT !.next = IF cron THEN "later" ELSE @] \in Status
    BY <2>2 DEF Status
  <2> QED BY <2>3 DEF Retired, told
<1>4. Renewed(st) \in Status
  BY DEF Status, Renewed, Unconditioned
<1>5. ASSUME NEW configured \in BOOLEAN
      PROVE  AlertResolved(st, configured) \in Status
  BY DEF Status, AlertResolved
<1>6. Elapsed(st) \in Status
  BY DEF Status, Elapsed
<1> QED BY <1>1, <1>2, <1>3, <1>4, <1>5, <1>6, RefreshedType DEF Marked

(* A scan that was never handled.                                          *)
LEMMA BlankType == Blank \in Status
  BY DEF Blank, Status, Summaries

-----------------------------------------------------------------------------
(* Types through the helpers of the steps.                                 *)

(* A worker on a scan goes on to a step of it, with a status as its copy.  *)
LEMMA ScanToType ==
    ASSUME TypeOK, NEW s \in Scans, NEW step \in ScanSteps, NEW copy \in Status,
           ScanTo(s, step, copy)
    PROVE  spc' \in [Scans -> ScanSteps] /\ sobj' \in [Scans -> Status]
  BY BlankType DEF TypeOK, ScanTo

LEMMA JobToType ==
    ASSUME TypeOK, NEW s \in Scans, NEW step \in JobSteps, NEW copy \in Status,
           JobTo(s, step, copy)
    PROVE  jpc' \in [Scans -> JobSteps] /\ jobj' \in [Scans -> Status]
  BY BlankType DEF TypeOK, JobTo

(* A step may make a copy stale, never invent one.                         *)
LEMMA ReleasedType ==
    ASSUME TypeOK, NEW s \in Scans, NEW holder, NEW step, Released(s, holder, step)
    PROVE  fresh' \in [Scans -> SUBSET Holders]
  BY DEF TypeOK, Released

(* A write of a status to the API server.                                  *)
LEMMA StoreType ==
    ASSUME TypeOK, NEW s \in Scans, NEW st \in Status, NEW keep \in SUBSET Holders,
           Store(s, st, keep)
    PROVE  scan' \in [Scans -> Status] /\ fresh' \in [Scans -> SUBSET Holders]
  BY DEF TypeOK, Store

LEMMA ScanAtType ==
    ASSUME TypeOK, NEW s \in Scans, NEW step \in ScanSteps, NEW copy \in Status,
           ScanAt(s, step, copy)
    PROVE  /\ spc' \in [Scans -> ScanSteps] /\ sobj' \in [Scans -> Status]
           /\ fresh' \in [Scans -> SUBSET Holders]
  BY ScanToType, ReleasedType DEF ScanAt

(* The count of the faults stays within its bound.                         *)
LEMMA MishapType ==
    ASSUME mishaps \in 0..MaxMishaps, UNCHANGED mishaps \/ \E fault \in Faults : Mishap(fault)
    PROVE  mishaps' \in 0..MaxMishaps
  BY BoundsAssumption DEF Mishap

(* The two ways a pass over an eligible scan ends without a launch.        *)
LEMMA RetryType ==
    ASSUME TypeOK, NEW s \in Scans, Retry(s)
    PROVE  /\ spc' \in [Scans -> ScanSteps] /\ sobj' \in [Scans -> Status]
           /\ fresh' \in [Scans -> SUBSET Holders] /\ scanQ' \subseteq Scans
<1>1. "idle" \in ScanSteps
  BY DEF ScanSteps
<1> QED BY <1>1, ScanAtType, BlankType DEF Retry, TypeOK

LEMMA RejectType ==
    ASSUME TypeOK, NEW s \in Scans, Reject(s, sobj[s])
    PROVE  /\ spc' \in [Scans -> ScanSteps] /\ sobj' \in [Scans -> Status]
           /\ fresh' \in [Scans -> SUBSET Holders]
<1>1. "idle" \in ScanSteps /\ "status" \in ScanSteps
  BY DEF ScanSteps
<1>2. sobj[s] \in Status /\ Strict(s) \in BOOLEAN
  BY DEF TypeOK, Strict
<1>3. Rejected(sobj[s], Strict(s)) \in Status
  BY <1>2, ScanStatusType
<1> QED BY <1>1, <1>3, ScanAtType, BlankType DEF Reject

(* The handlers that get the object after the scan handler.                *)
LEMMA AfterType ==
    ASSUME NEW copy
    PROVE  /\ AfterScan(copy) \in {"sched", "metrics", "idle"}
           /\ AfterSched(copy) \in {"metrics", "idle"}
  BY DEF AfterScan, AfterSched

(* The copies and the kinds of one scan.                                   *)
LEMMA ScanFacts ==
    ASSUME TypeOK, NEW s \in Scans
    PROVE  /\ scan[s] \in Status /\ scanCache[s] \in Status
           /\ sobj[s] \in Status /\ jobj[s] \in Status
           /\ Strict(s) \in BOOLEAN /\ Cron(s) \in BOOLEAN /\ Configured(s) \in BOOLEAN
  BY DEF TypeOK, Strict, Cron, Configured

-----------------------------------------------------------------------------
(* The initial state and every step keep the types.                        *)

LEMMA TypeInit == Init => TypeOK
  BY ScansAssumption, BehaviourAssumption, BoundsAssumption, BlankType
  DEF Init, TypeOK, Holders, PodStates, ScanSteps, JobSteps

LEMMA ScanHandlerType ==
    ASSUME TypeOK, NEW s \in Scans, ScanHandler(s)
    PROVE  TypeOK'
<1> USE DEF apiVars, cacheVars, memVars, queueVars, scanWork, jobWork, histVars
<1>0. ScanSteps = {"idle", "gate", "lock", "claim", "apply", "status", "sched", "metrics"}
      /\ "scanner" \in Holders
  BY DEF ScanSteps, Holders
<1>1. CASE ScanStart(s)
  <2> DEFINE o     == scanCache[s]
             first == Eligible(o) /\ ~o.pending
             step  == IF s \notin seen THEN "idle"
                      ELSE IF first THEN "status"
                      ELSE IF Eligible(o) THEN "gate" ELSE AfterScan(o)
             copy  == IF first THEN Pended(o, Strict(s)) ELSE o
  <2>1. step \in ScanSteps
    BY <1>0, AfterType
  <2>2. copy \in Status
    BY ScanFacts, ScanStatusType
  <2>3. ScanTo(s, step, copy)
    BY <1>1 DEF ScanStart
  <2>4. spc' \in [Scans -> ScanSteps] /\ sobj' \in [Scans -> Status]
    <3> HIDE DEF step, copy
    <3> QED BY <2>1, <2>2, <2>3, ScanToType
  <2>5. fresh' \in [Scans -> SUBSET Holders] /\ scanQ' \subseteq Scans
    BY <1>0, <1>1 DEF ScanStart, TypeOK
  <2> QED BY <1>1, <2>4, <2>5 DEF ScanStart, TypeOK
<1>2. CASE ScanGate(s)
  <2>1. CASE RunnerSeen /\ Retry(s)
    BY <1>2, <2>1, RetryType DEF ScanGate, TypeOK
  <2>2. CASE ScanAt(s, "lock", sobj[s]) /\ UNCHANGED scanQ
    <3>1. spc' \in [Scans -> ScanSteps] /\ sobj' \in [Scans -> Status]
          /\ fresh' \in [Scans -> SUBSET Holders]
      BY <1>0, <2>2, ScanFacts, ScanAtType
    <3> QED BY <1>2, <2>2, <3>1 DEF ScanGate, TypeOK
  <2>3. CASE Reject(s, sobj[s]) /\ UNCHANGED scanQ
    BY <1>2, <2>3, RejectType DEF ScanGate, TypeOK
  <2> QED BY <1>2, <2>1, <2>2, <2>3 DEF ScanGate
<1>3. CASE ScanLock(s)
  <2>1. cms' \in [Scans -> SUBSET {"output", "copy"}] /\ mu' \in Scans \cup {None}
        /\ current' \in Scans \cup {None}
    BY <1>3 DEF ScanLock, Copied, TypeOK
  <2>5. mishaps' \in 0..MaxMishaps
    BY <1>3, MishapType DEF ScanLock, Mishap, TypeOK
  <2>2. CASE Blocked /\ Retry(s)
    BY <1>3, <2>1, <2>2, <2>5, RetryType DEF ScanLock, TypeOK
  <2>3. CASE ScanAt(s, "claim", sobj[s]) /\ UNCHANGED scanQ
    <3>1. spc' \in [Scans -> ScanSteps] /\ sobj' \in [Scans -> Status]
          /\ fresh' \in [Scans -> SUBSET Holders]
      BY <1>0, <2>3, ScanFacts, ScanAtType
    <3> QED BY <1>3, <2>1, <2>3, <2>5, <3>1 DEF ScanLock, TypeOK
  <2>4. CASE Reject(s, sobj[s]) /\ UNCHANGED scanQ
    BY <1>3, <2>1, <2>4, <2>5, RejectType DEF ScanLock, TypeOK
  <2> QED BY <1>3, <2>2, <2>3, <2>4 DEF ScanLock
<1>4. CASE ScanClaim(s)
  <2>1. mu' \in Scans \cup {None} /\ current' \in Scans \cup {None} /\ rules' \subseteq Scans
    BY <1>4 DEF ScanClaim, TypeOK
  <2>4. mishaps' \in 0..MaxMishaps
    BY <1>4, MishapType DEF ScanClaim, Mishap, TypeOK
  <2>2. CASE RunnerSeen /\ Retry(s)
    BY <1>4, <2>1, <2>2, <2>4, RetryType DEF ScanClaim, TypeOK
  <2>3. ASSUME UNCHANGED scanQ, NEW created \in BOOLEAN,
               ScanAt(s, "apply", Launched(sobj[s], sobj[s].rule \/ created, Strict(s)))
        PROVE  TypeOK'
    <3>1. (sobj[s].rule \/ created) \in BOOLEAN
      OBVIOUS
    <3>2. Launched(sobj[s], sobj[s].rule \/ created, Strict(s)) \in Status
      BY <3>1, ScanFacts, ScanStatusType
    <3>3. spc' \in [Scans -> ScanSteps] /\ sobj' \in [Scans -> Status]
          /\ fresh' \in [Scans -> SUBSET Holders]
      BY <1>0, <2>3, <3>2, ScanAtType
    <3> QED BY <1>4, <2>1, <2>3, <2>4, <3>3 DEF ScanClaim, TypeOK
  <2> QED BY <1>4, <2>2, <2>3 DEF ScanClaim
<1>5. CASE ScanApply(s)
  <2>1. spc' \in [Scans -> ScanSteps] /\ sobj' \in [Scans -> Status]
        /\ fresh' \in [Scans -> SUBSET Holders]
    BY <1>0, <1>5, ScanFacts, ScanAtType DEF ScanApply
  <2>2. launches' \in [Scans -> 0..2] /\ jobs' \subseteq Scans /\ orphans' \subseteq Scans
    BY <1>5 DEF ScanApply, CreateJob, Capped, TypeOK
  <2> QED BY <1>5, <2>1, <2>2 DEF ScanApply, TypeOK
<1>6. CASE ScanApplyFails(s)
  <2>1. Retry(s)
    BY <1>6 DEF ScanApplyFails
  <2> QED BY <1>6, <2>1, RetryType, BoundsAssumption
          DEF ScanApplyFails, Mishap, CreateJob, Capped, TypeOK
<1>7. CASE ScanStatusWrite(s)
  <2> DEFINE next == AfterScan(sobj[s])
             kept == IF next = "idle" THEN {} ELSE {"scanner"}
  <2>1. next \in ScanSteps /\ kept \in SUBSET Holders
    BY <1>0, AfterType
  <2>2. CASE Accepted(s, "scanner") /\ ScanTo(s, next, sobj[s])
             /\ Store(s, sobj[s], kept) /\ UNCHANGED scanQ
    <3> HIDE DEF next, kept
    <3>1. spc' \in [Scans -> ScanSteps] /\ sobj' \in [Scans -> Status]
      BY <2>1, <2>2, ScanFacts, ScanToType
    <3>2. scan' \in [Scans -> Status] /\ fresh' \in [Scans -> SUBSET Holders]
      BY <2>1, <2>2, ScanFacts, StoreType
    <3> QED BY <1>7, <2>2, <3>1, <3>2 DEF ScanStatusWrite, TypeOK
  <2>3. CASE ScanAt(s, next, sobj[s]) /\ scanQ' = scanQ \cup {s} /\ UNCHANGED scan
    <3> HIDE DEF next
    <3>1. spc' \in [Scans -> ScanSteps] /\ sobj' \in [Scans -> Status]
          /\ fresh' \in [Scans -> SUBSET Holders]
      BY <2>1, <2>3, ScanFacts, ScanAtType
    <3> QED BY <1>7, <2>3, <3>1 DEF ScanStatusWrite, TypeOK
  <2> QED BY <1>7, <2>2, <2>3 DEF ScanStatusWrite
<1>8. CASE ScanSched(s)
  <2> DEFINE o == sobj[s]
             next == AfterSched(o)
             kept == IF next = "idle" THEN {} ELSE {"scanner"}
             seenNow == [o EXCEPT !.observed = TRUE]
  <2>1. next \in ScanSteps /\ kept \in SUBSET Holders
    BY <1>0, AfterType
  <2>2. seenNow \in Status /\ o \in Status /\ Renewed(scan[s]) \in Status
    BY ScanFacts, ScanStatusType, OutcomeStatusType
  <2>3. timer' \subseteq Scans /\ scanQ' \subseteq Scans /\ launches' \in [Scans -> 0..2]
    BY <1>8 DEF ScanSched, TypeOK
  <2>4. \/ ScanTo(s, next, seenNow) /\ Store(s, seenNow, kept)
        \/ ScanAt(s, next, seenNow) /\ UNCHANGED scan
        \/ ScanAt(s, next, o) /\ UNCHANGED scan
        \/ ScanTo(s, next, o) /\ Store(s, Renewed(scan[s]), {})
    BY <1>8 DEF ScanSched
  <2>5. /\ spc' \in [Scans -> ScanSteps] /\ sobj' \in [Scans -> Status]
        /\ scan' \in [Scans -> Status] /\ fresh' \in [Scans -> SUBSET Holders]
    <3> HIDE DEF o, next, kept, seenNow
    <3>1. CASE ScanTo(s, next, seenNow) /\ Store(s, seenNow, kept)
      BY <2>1, <2>2, <3>1, ScanToType, StoreType
    <3>2. CASE ScanAt(s, next, seenNow) /\ UNCHANGED scan
      BY <2>1, <2>2, <3>2, ScanAtType DEF TypeOK
    <3>3. CASE ScanAt(s, next, o) /\ UNCHANGED scan
      BY <2>1, <2>2, <3>3, ScanAtType DEF TypeOK
    <3>4. CASE ScanTo(s, next, o) /\ Store(s, Renewed(scan[s]), {})
      BY <2>1, <2>2, <3>4, ScanToType, StoreType
    <3> QED BY <2>4, <3>1, <3>2, <3>3, <3>4
  <2> QED BY <1>8, <2>3, <2>5 DEF ScanSched, TypeOK
<1>9. CASE ScanMetrics(s)
  <2>1. AlertResolved(scan[s], Configured(s)) \in Status
    BY ScanFacts, OutcomeStatusType
  <2>2. spc' \in [Scans -> ScanSteps] /\ sobj' \in [Scans -> Status]
    BY <1>0, <1>9, BlankType, ScanToType DEF ScanMetrics
  <2>3. scan' \in [Scans -> Status] /\ fresh' \in [Scans -> SUBSET Holders]
    BY <1>9, <2>1, StoreType, ReleasedType DEF ScanMetrics, TypeOK
  <2>4. scanQ' \subseteq Scans /\ counted' \in [Scans -> 0..2]
    BY <1>9 DEF ScanMetrics, Capped, TypeOK
  <2> QED BY <1>9, <2>2, <2>3, <2>4 DEF ScanMetrics, TypeOK
<1>10. CASE ScanCallFails(s)
  <2> DEFINE step == CASE spc[s] = "status" -> AfterScan(sobj[s])
                       [] spc[s] = "sched"  -> AfterSched(sobj[s])
                       [] OTHER             -> "idle"
  <2>1. step \in ScanSteps
    BY <1>0, AfterType
  <2>2. ScanAt(s, step, sobj[s])
    BY <1>10 DEF ScanCallFails
  <2>3. spc' \in [Scans -> ScanSteps] /\ sobj' \in [Scans -> Status]
        /\ fresh' \in [Scans -> SUBSET Holders]
    <3> HIDE DEF step
    <3> QED BY <2>1, <2>2, ScanFacts, ScanAtType
  <2>4. scanQ' \subseteq Scans /\ counted' \in [Scans -> 0..2] /\ mishaps' \in 0..MaxMishaps
    BY <1>10, BoundsAssumption DEF ScanCallFails, Mishap, Capped, TypeOK
  <2>5. current' \in Scans \cup {None}
    BY <1>10 DEF ScanCallFails, TypeOK
  <2> QED BY <1>10, <2>3, <2>4, <2>5 DEF ScanCallFails, TypeOK
<1> QED BY <1>1, <1>2, <1>3, <1>4, <1>5, <1>6, <1>7, <1>8, <1>9, <1>10 DEF ScanHandler

LEMMA JobHandlerType ==
    ASSUME TypeOK, NEW s \in Scans, JobHandler(s)
    PROVE  TypeOK'
<1> USE DEF apiVars, cacheVars, memVars, queueVars, scanWork, jobWork, histVars
<1>0. JobSteps = {"idle", "complete", "cleanup", "finish", "release"}
      /\ "jobber" \in Holders
  BY DEF JobSteps, Holders
<1>1. CASE JobIgnore(s)
  BY <1>1 DEF JobIgnore, TypeOK
<1>2. CASE JobOfDeletedScan(s)
  BY <1>2 DEF JobOfDeletedScan, TypeOK
<1>3. CASE JobRetire(s)
  <2>1. reports' \in [Scans -> 0..MaxReports]
    BY <1>3, BoundsAssumption DEF JobRetire, Kept, TypeOK
  <2>2. Retired(scan[s], Cron(s), Strict(s)) \in Status
    BY ScanFacts, OutcomeStatusType
  <2>3. jpc' \in [Scans -> JobSteps] /\ jobj' \in [Scans -> Status]
    BY <1>0, <1>3, <2>2, JobToType DEF JobRetire, TypeOK
  <2>4. fresh' \in [Scans -> SUBSET Holders]
    BY <1>0, <1>3 DEF JobRetire, TypeOK
  <2>5. /\ timer' \subseteq Scans /\ jobs' \subseteq Scans
        /\ orphans' \subseteq Scans /\ jobQ' \subseteq Scans
    BY <1>3 DEF JobRetire, Rearmed, TypeOK
  <2>6. mishaps' \in 0..MaxMishaps
    BY <1>3, MishapType DEF JobRetire, Mishap, TypeOK
  <2> QED BY <1>3, <2>1, <2>3, <2>4, <2>5, <2>6 DEF JobRetire, TypeOK
<1>4. CASE JobCollect(s)
  <2>1. reports' \in [Scans -> 0..MaxReports]
    BY <1>4, BoundsAssumption DEF JobCollect, Reported, Capped, TypeOK
  <2>2. PICK summary \in Summaries : JobTo(s, "complete", Completed(scan[s], summary))
    <3>1. scan[s].summary \in Summaries
      BY ScanFacts DEF Status
    <3> QED BY <1>4, <3>1, BehaviourAssumption DEF JobCollect
  <2>3. jpc' \in [Scans -> JobSteps] /\ jobj' \in [Scans -> Status]
    BY <1>0, <2>2, ScanFacts, OutcomeStatusType, JobToType
  <2>4. fresh' \in [Scans -> SUBSET Holders]
    BY <1>0, <1>4 DEF JobCollect, TypeOK
  <2> QED BY <1>4, <2>1, <2>3, <2>4 DEF JobCollect, TypeOK
<1>5. CASE JobComplete(s)
  <2>1. jpc' \in [Scans -> JobSteps] /\ jobj' \in [Scans -> Status]
    BY <1>0, <1>5, BlankType, JobToType DEF JobComplete
  <2>2. scan' \in [Scans -> Status] /\ fresh' \in [Scans -> SUBSET Holders]
    BY <1>5, ScanFacts, StoreType, ReleasedType DEF JobComplete, TypeOK
  <2> QED BY <1>5, <2>1, <2>2 DEF JobComplete, TypeOK
<1>6. CASE JobCleanup(s)
  <2>1. /\ jpc' \in [Scans -> JobSteps] /\ jobj' \in [Scans -> Status]
        /\ fresh' \in [Scans -> SUBSET Holders]
    BY <1>0, <1>6, ScanFacts, JobToType, ReleasedType DEF JobCleanup, JobAt
  <2>2. /\ pod' \in [Scans -> PodStates]
        /\ cms' \in [Scans -> SUBSET {"output", "copy"}]
    BY <1>6 DEF JobCleanup, Cleaned, PodStates, TypeOK
  <2> QED BY <1>6, <2>1, <2>2 DEF JobCleanup, TypeOK
<1>7. CASE JobFinish(s)
  <2>1. jpc' \in [Scans -> JobSteps] /\ jobj' \in [Scans -> Status]
    BY <1>0, <1>7, BlankType, JobToType DEF JobFinish, JobAt
  <2>2. scan' \in [Scans -> Status] /\ fresh' \in [Scans -> SUBSET Holders]
    BY <1>7, ScanFacts, StoreType, ReleasedType DEF JobFinish, JobAt, TypeOK
  <2>3. counted' \in [Scans -> 0..2] /\ jobQ' \subseteq Scans
    BY <1>7 DEF JobFinish, TypeOK
  <2> QED BY <1>7, <2>1, <2>2, <2>3 DEF JobFinish, TypeOK
<1>8. CASE JobRelease(s)
  <2>1. /\ jpc' \in [Scans -> JobSteps] /\ jobj' \in [Scans -> Status]
        /\ fresh' \in [Scans -> SUBSET Holders]
    BY <1>0, <1>8, BlankType, JobToType, ReleasedType DEF JobRelease, JobAt
  <2> QED BY <1>8, <2>1 DEF JobRelease, TypeOK
<1>9. CASE JobCallFails(s)
  <2>1. /\ jpc' \in [Scans -> JobSteps] /\ jobj' \in [Scans -> Status]
        /\ fresh' \in [Scans -> SUBSET Holders]
    BY <1>0, <1>9, BlankType, JobToType, ReleasedType DEF JobCallFails, JobAt
  <2> QED BY <1>9, <2>1, BoundsAssumption DEF JobCallFails, Mishap, TypeOK
<1> QED BY <1>1, <1>2, <1>3, <1>4, <1>5, <1>6, <1>7, <1>8, <1>9 DEF JobHandler

LEMMA EnvironmentType ==
    ASSUME TypeOK, NEW s \in Scans,
           PodHandler(s) \/ Cluster(s) \/ Informers(s) \/ Clock(s) \/ Users(s)
    PROVE  TypeOK'
<1> USE DEF apiVars, cacheVars, memVars, queueVars, scanWork, jobWork, histVars
<1>1. CASE PodHandler(s)
  <2>1. CASE PodIgnore(s)
    BY <2>1 DEF PodIgnore, TypeOK
  <2>2. CASE PodMark(s)
    <3>1. Marked(scan[s], podCache[s], Strict(s)) \in Status
      BY ScanFacts, OutcomeStatusType
    <3>2. scan' \in [Scans -> Status] /\ fresh' \in [Scans -> SUBSET Holders]
      BY <2>2, <3>1, StoreType DEF PodMark
    <3> QED BY <2>2, <3>2 DEF PodMark, TypeOK
  <2> QED BY <1>1, <2>1, <2>2 DEF PodHandler
<1>2. CASE Cluster(s)
  <2>1. CASE StartPod(s)
    BY <2>1 DEF StartPod, PodStates, TypeOK
  <2>2. CASE RunnerDone(s)
    BY <2>2 DEF RunnerDone, PodStates, TypeOK
  <2>3. CASE JobExpires(s)
    BY <2>3, BoundsAssumption DEF JobExpires, Mishap, TypeOK
  <2>4. CASE CollectOrphan(s)
    BY <2>4 DEF CollectOrphan, TypeOK
  <2>5. CASE CollectPod(s)
    BY <2>5 DEF CollectPod, PodStates, TypeOK
  <2> QED BY <1>2, <2>1, <2>2, <2>3, <2>4, <2>5 DEF Cluster
<1>3. CASE Informers(s)
  <2>1. CASE SyncScan(s)
    BY <2>1 DEF SyncScan, Holders, TypeOK
  <2>2. CASE SyncJob(s)
    BY <2>2 DEF SyncJob, TypeOK
  <2>3. CASE SyncPod(s)
    BY <2>3 DEF SyncPod, TypeOK
  <2>4. CASE SyncConfigMaps(s)
    BY <2>4 DEF SyncConfigMaps, TypeOK
  <2>5. CASE RedeliverScan(s)
    BY <2>5 DEF RedeliverScan, TypeOK
  <2>6. CASE RedeliverJob(s)
    BY <2>6 DEF RedeliverJob, TypeOK
  <2>7. CASE RedeliverPod(s)
    BY <2>7 DEF RedeliverPod, TypeOK
  <2> QED BY <1>3, <2>1, <2>2, <2>3, <2>4, <2>5, <2>6, <2>7 DEF Informers
<1>4. CASE Clock(s)
  <2>1. CASE TimePasses(s)
    BY <2>1, ScanFacts, OutcomeStatusType DEF TimePasses, TypeOK
  <2>2. CASE TimerFires(s)
    BY <2>2 DEF TimerFires, TypeOK
  <2> QED BY <1>4, <2>1, <2>2 DEF Clock
<1>5. CASE Users(s)
  <2>1. CASE CreateScan(s)
    BY <2>1, BlankType DEF CreateScan, Store, TypeOK
  <2>2. CASE EditScan(s)
    <3>1. [scan[s] EXCEPT !.observed = FALSE] \in Status
      BY ScanFacts, ScanStatusType
    <3>2. scan' \in [Scans -> Status] /\ fresh' \in [Scans -> SUBSET Holders]
      BY <2>2, <3>1, StoreType DEF EditScan
    <3> QED BY <2>2, <3>2, BoundsAssumption DEF EditScan, Mishap, TypeOK
  <2>3. CASE DeleteScan(s)
    BY <2>3, BlankType, BoundsAssumption DEF DeleteScan, Mishap, Store, TypeOK
  <2> QED BY <1>5, <2>1, <2>2, <2>3 DEF Users
<1> QED BY <1>1, <1>2, <1>3, <1>4, <1>5

LEMMA CrashType == ASSUME TypeOK, Crash PROVE TypeOK'
  BY BlankType, BoundsAssumption
  DEF Crash, Mishap, apiVars, TypeOK, Holders, ScanSteps, JobSteps

LEMMA TypeStep == TypeOK /\ [Next]_vars => TypeOK'
<1> SUFFICES ASSUME TypeOK, [Next]_vars PROVE TypeOK'
  OBVIOUS
<1>1. CASE UNCHANGED vars
  BY <1>1 DEF vars, apiVars, cacheVars, memVars, queueVars, scanWork, jobWork,
              histVars, TypeOK
<1>2. CASE Crash
  BY <1>2, CrashType
<1>3. ASSUME NEW s \in Scans, ScanHandler(s) \/ JobHandler(s)
      PROVE  TypeOK'
  BY <1>3, ScanHandlerType, JobHandlerType
<1>4. ASSUME NEW s \in Scans,
             PodHandler(s) \/ Cluster(s) \/ Informers(s) \/ Clock(s) \/ Users(s)
      PROVE  TypeOK'
  BY <1>4, EnvironmentType
<1> QED BY <1>1, <1>2, <1>3, <1>4 DEF Next

(* Every variable keeps its type, for every instance and every fault.      *)
THEOREM TypeCorrect == Spec => []TypeOK
  BY TypeInit, TypeStep, PTL DEF Spec

-----------------------------------------------------------------------------
(* The claim on the runner.                                                *)

(* Nobody deletes a scan, and the operator process is not restarted. Every *)
(* other fault may happen, any number of times.                            *)
NoRestartOrDelete == Faults \cap {"crash", "restart", "delete"} = {}

(* The parts of the state ClaimInv is about.                               *)
claimVars == <<alive, jobs, seen, current, mu, spc, jpc>>

LEMMA ClaimInit == Init => ClaimInv
  BY ScansAssumption DEF Init, ClaimInv

LEMMA ClaimUnchanged ==
    ASSUME ClaimInv, UNCHANGED claimVars
    PROVE  ClaimInv'
  BY DEF ClaimInv, claimVars

(* A worker on a scan may give up, or go to a step that needs no claim.    *)
LEMMA ClaimScanOn ==
    ASSUME TypeOK, ClaimInv, NEW s \in Scans,
           spc[s] \notin {"claim", "apply"}, s \in alive,
           NEW step \in ScanSteps \ {"claim", "apply"},
           spc' = [spc EXCEPT ![s] = step],
           UNCHANGED <<alive, jobs, seen, current, mu, jpc>>
    PROVE  ClaimInv'
  BY DEF TypeOK, ClaimInv

LEMMA ScanHandlerClaim ==
    ASSUME TypeOK, ClaimInv, NEW s \in Scans, ScanHandler(s)
    PROVE  ClaimInv'
<1> USE DEF apiVars, cacheVars, memVars, queueVars, scanWork, jobWork, histVars
<1>0. ScanSteps = {"idle", "gate", "lock", "claim", "apply", "status", "sched", "metrics"}
  BY DEF ScanSteps
<1>1. CASE ScanStart(s)
  <2> DEFINE o     == scanCache[s]
             first == Eligible(o) /\ ~o.pending
             step  == IF s \notin seen THEN "idle"
                      ELSE IF first THEN "status"
                      ELSE IF Eligible(o) THEN "gate" ELSE AfterScan(o)
  <2>1. step \in ScanSteps \ {"claim", "apply"} /\ (step # "idle" => s \in seen)
    BY <1>0, AfterType
  <2>2. spc' = [spc EXCEPT ![s] = step]
    BY <1>1 DEF ScanStart, ScanTo
  <2>3. spc[s] = "idle" /\ UNCHANGED <<alive, jobs, seen, current, mu, jpc>>
    BY <1>1 DEF ScanStart
  <2> HIDE DEF step
  <2>4. CASE step = "idle"
    BY <2>2, <2>3, <2>4, ClaimUnchanged DEF TypeOK, claimVars
  <2>5. CASE step # "idle"
    BY <2>1, <2>2, <2>3, <2>5, ClaimScanOn DEF ClaimInv
  <2> QED BY <2>4, <2>5
<1>2. CASE ScanGate(s)
  <2>1. s \in alive
    BY <1>2 DEF ScanGate, ClaimInv
  <2>2. \E step \in {"idle", "lock", "status"} : spc' = [spc EXCEPT ![s] = step]
    BY <1>2 DEF ScanGate, Retry, Reject, ScanAt, ScanTo
  <2> QED BY <1>0, <1>2, <2>1, <2>2, ClaimScanOn DEF ScanGate
<1>3. CASE ScanLock(s)
  <2>1. s \in alive /\ spc[s] = "lock" /\ mu = None
    BY <1>3 DEF ScanLock, ClaimInv
  <2>2. UNCHANGED current
    BY <1>3 DEF ScanLock, Blocked, ClaimInv, TypeOK
  <2>3. CASE UNCHANGED mu
    <3>1. \E step \in {"idle", "status"} : spc' = [spc EXCEPT ![s] = step]
      BY <1>3, <2>1, <2>3, ScansAssumption
      DEF ScanLock, Retry, Reject, ScanAt, ScanTo
    <3> QED BY <1>0, <1>3, <2>1, <2>2, <2>3, <3>1, ClaimScanOn DEF ScanLock
  <2>4. CASE mu' # mu
    <3>1. ~Blocked /\ mu' = s /\ spc' = [spc EXCEPT ![s] = "claim"]
      BY <1>3, <2>4 DEF ScanLock, ScanAt, ScanTo
    <3>2. current = None
      BY <3>1 DEF Blocked, ClaimInv, TypeOK
    <3>3. /\ jobs \subseteq {current}
          /\ \A t \in Scans : /\ spc[t] \notin {"claim", "apply"}
                             /\ jpc[t] \notin {"cleanup", "finish", "release"}
      BY <2>1, <3>2, ScansAssumption DEF ClaimInv
    <3> QED BY <1>3, <2>1, <2>2, <3>1, <3>2, <3>3 DEF ScanLock, ClaimInv, TypeOK
  <2> QED BY <2>3, <2>4
<1>4. CASE ScanClaim(s)
  <2>1. /\ s \in alive /\ spc[s] = "claim" /\ mu = s /\ current = None
        /\ jobs = {} /\ mu' = None
        /\ \A t \in Scans : /\ spc[t] # "apply" /\ (t # s => spc[t] # "claim")
                            /\ jpc[t] \notin {"cleanup", "finish", "release"}
    BY <1>4, ScansAssumption DEF ScanClaim, ClaimInv, TypeOK
  <2>2. \/ current' = current /\ spc' = [spc EXCEPT ![s] = "idle"]
        \/ current' = s /\ spc' = [spc EXCEPT ![s] = "apply"]
    BY <1>4 DEF ScanClaim, Retry, ScanAt, ScanTo
  <2> QED BY <1>4, <2>1, <2>2, ScansAssumption DEF ScanClaim, ClaimInv, TypeOK
<1>5. CASE ScanApply(s)
  <2>1. /\ s \in alive /\ spc[s] = "apply" /\ current = s
        /\ jpc[s] \notin {"cleanup", "finish", "release"}
    BY <1>5 DEF ScanApply, ClaimInv
  <2>2. jobs' = jobs \cup {s} /\ spc' = [spc EXCEPT ![s] = "status"]
    BY <1>5 DEF ScanApply, CreateJob, ScanAt, ScanTo
  <2> QED BY <1>5, <2>1, <2>2 DEF ScanApply, ClaimInv, TypeOK
<1>6. CASE ScanApplyFails(s)
  <2>1. /\ s \in alive /\ spc[s] = "apply" /\ current = s
        /\ jpc[s] \notin {"cleanup", "finish", "release"}
    BY <1>6 DEF ScanApplyFails, ClaimInv
  <2>2. /\ jobs' \in {jobs, jobs \cup {s}}
        /\ spc' = [spc EXCEPT ![s] = "idle"]
    BY <1>6 DEF ScanApplyFails, CreateJob, Retry, ScanAt, ScanTo
  <2> QED BY <1>6, <2>1, <2>2 DEF ScanApplyFails, ClaimInv, TypeOK
<1>7. CASE ScanStatusWrite(s)
  <2>1. s \in alive /\ spc[s] = "status"
    BY <1>7 DEF ScanStatusWrite, ClaimInv
  <2>2. spc' = [spc EXCEPT ![s] = AfterScan(sobj[s])]
    BY <1>7 DEF ScanStatusWrite, ScanAt, ScanTo
  <2>3. AfterScan(sobj[s]) \in ScanSteps \ {"claim", "apply"}
    BY <1>0, AfterType
  <2> QED BY <1>7, <2>1, <2>2, <2>3, ClaimScanOn DEF ScanStatusWrite
<1>8. CASE ScanSched(s)
  <2>1. s \in alive /\ spc[s] = "sched"
    BY <1>8 DEF ScanSched, ClaimInv
  <2>2. spc' = [spc EXCEPT ![s] = AfterSched(sobj[s])]
    BY <1>8 DEF ScanSched, ScanAt, ScanTo
  <2>3. AfterSched(sobj[s]) \in ScanSteps \ {"claim", "apply"}
    BY <1>0, AfterType
  <2> QED BY <1>8, <2>1, <2>2, <2>3, ClaimScanOn DEF ScanSched
<1>9. CASE ScanMetrics(s)
  <2>1. s \in alive /\ spc[s] = "metrics" /\ spc' = [spc EXCEPT ![s] = "idle"]
    BY <1>9 DEF ScanMetrics, ScanTo, ClaimInv
  <2> QED BY <1>0, <1>9, <2>1, ClaimScanOn DEF ScanMetrics
<1>10. CASE ScanCallFails(s)
  <2>1. s \in alive /\ spc[s] \in {"lock", "status", "sched", "metrics"}
    BY <1>10 DEF ScanCallFails, ClaimInv
  <2>2. \E step \in {"idle", "sched", "metrics"} : spc' = [spc EXCEPT ![s] = step]
    BY <1>10, AfterType DEF ScanCallFails, ScanAt, ScanTo
  <2>3. UNCHANGED current
    BY <1>10 DEF ScanCallFails, Blocked, ClaimInv, TypeOK
  <2> QED BY <1>0, <1>10, <2>1, <2>2, <2>3, ClaimScanOn DEF ScanCallFails
<1> QED BY <1>1, <1>2, <1>3, <1>4, <1>5, <1>6, <1>7, <1>8, <1>9, <1>10 DEF ScanHandler

LEMMA JobHandlerClaim ==
    ASSUME TypeOK, ClaimInv, NEW s \in Scans, JobHandler(s)
    PROVE  ClaimInv'
<1> USE DEF apiVars, cacheVars, memVars, queueVars, scanWork, jobWork, histVars
<1>1. CASE JobIgnore(s)
  BY <1>1, ClaimUnchanged DEF JobIgnore, claimVars
<1>2. CASE JobOfDeletedScan(s)
  BY <1>2 DEF JobOfDeletedScan, ClaimInv
<1>3. CASE JobRetire(s)
  <2>1. CASE /\ s \in jobs
             /\ jobs' = jobs \ {s} /\ jpc' = [jpc EXCEPT ![s] = "cleanup"]
    <3>1. current = s /\ jpc[s] = "idle" /\ spc[s] # "apply"
      BY <1>3, <2>1 DEF JobRetire, JobPop, ClaimInv
    <3> QED BY <1>3, <2>1, <3>1 DEF JobRetire, ClaimInv, TypeOK
  <2>2. CASE UNCHANGED <<jobs, jobWork>>
    BY <1>3, <2>2, ClaimUnchanged DEF JobRetire, claimVars
  <2> QED BY <1>3, <2>1, <2>2 DEF JobRetire, JobTo
<1>4. CASE JobCollect(s)
  <2>1. jpc' = [jpc EXCEPT ![s] = "complete"]
    BY <1>4 DEF JobCollect, JobTo
  <2> QED BY <1>4, <2>1 DEF JobCollect, ClaimInv, TypeOK
<1>5. CASE JobComplete(s)
  <2>1. jpc' = [jpc EXCEPT ![s] = "idle"]
    BY <1>5 DEF JobComplete, JobTo
  <2> QED BY <1>5, <2>1 DEF JobComplete, ClaimInv, TypeOK
<1>6. CASE JobCleanup(s)
  <2>1. jpc[s] = "cleanup" /\ jpc' = [jpc EXCEPT ![s] = "finish"]
    BY <1>6 DEF JobCleanup, JobAt, JobTo
  <2> QED BY <1>6, <2>1 DEF JobCleanup, ClaimInv, TypeOK
<1>7. CASE JobFinish(s)
  <2>1. /\ jpc[s] = "finish"
        /\ \E step \in {"release", "idle"} : jpc' = [jpc EXCEPT ![s] = step]
    BY <1>7 DEF JobFinish, JobAt, JobTo
  <2> QED BY <1>7, <2>1 DEF JobFinish, ClaimInv, TypeOK
<1>8. CASE JobRelease(s)
  <2>1. /\ current = s /\ jobs = {} /\ spc[s] # "apply"
        /\ current' = None /\ jpc' = [jpc EXCEPT ![s] = "idle"]
    BY <1>8 DEF JobRelease, JobAt, JobTo, ClaimInv
  <2>2. \A t \in Scans : /\ spc[t] # "apply"
                         /\ jpc[t] \in {"cleanup", "finish", "release"} => t = s
    BY <2>1 DEF ClaimInv
  <2> QED BY <1>8, <2>1, <2>2, ScansAssumption DEF JobRelease, ClaimInv, TypeOK
<1>9. CASE JobCallFails(s)
  <2>1. jpc' = [jpc EXCEPT ![s] = "idle"]
    BY <1>9 DEF JobCallFails, JobAt, JobTo
  <2> QED BY <1>9, <2>1 DEF JobCallFails, ClaimInv, TypeOK
<1> QED BY <1>1, <1>2, <1>3, <1>4, <1>5, <1>6, <1>7, <1>8, <1>9 DEF JobHandler

LEMMA EnvironmentClaim ==
    ASSUME NoRestartOrDelete, TypeOK, ClaimInv, NEW s \in Scans,
           PodHandler(s) \/ Cluster(s) \/ Informers(s) \/ Clock(s) \/ Users(s)
    PROVE  ClaimInv'
<1> USE DEF apiVars, cacheVars, memVars, queueVars, scanWork, jobWork, histVars
<1>1. CASE PodHandler(s)
  BY <1>1, ClaimUnchanged DEF PodHandler, PodIgnore, PodMark, claimVars
<1>2. CASE Cluster(s)
  <2>1. jobs' \subseteq jobs /\ UNCHANGED <<alive, seen, current, mu, spc, jpc>>
    BY <1>2 DEF Cluster, StartPod, RunnerDone, JobExpires, CollectOrphan, CollectPod
  <2> QED BY <2>1 DEF ClaimInv
<1>3. CASE Informers(s)
  <2>1. CASE SyncScan(s)
    <3>1. seen' \subseteq alive
      BY <2>1 DEF SyncScan, ClaimInv
    <3> QED BY <2>1, <3>1 DEF SyncScan, ClaimInv
  <2>2. CASE SyncJob(s) \/ SyncPod(s) \/ SyncConfigMaps(s)
    BY <2>2, ClaimUnchanged DEF SyncJob, SyncPod, SyncConfigMaps, claimVars
  <2>3. CASE RedeliverScan(s) \/ RedeliverJob(s) \/ RedeliverPod(s)
    BY <2>3, ClaimUnchanged DEF RedeliverScan, RedeliverJob, RedeliverPod, claimVars
  <2> QED BY <1>3, <2>1, <2>2, <2>3 DEF Informers
<1>4. CASE Clock(s)
  BY <1>4, ClaimUnchanged DEF Clock, TimePasses, TimerFires, claimVars
<1>5. CASE Users(s)
  <2>1. CASE CreateScan(s)
    BY <2>1 DEF CreateScan, ClaimInv
  <2>2. CASE EditScan(s)
    BY <2>2, ClaimUnchanged DEF EditScan, claimVars
  <2>3. ~DeleteScan(s)
    BY DEF NoRestartOrDelete, DeleteScan, Mishap
  <2> QED BY <1>5, <2>1, <2>2, <2>3 DEF Users
<1> QED BY <1>1, <1>2, <1>3, <1>4, <1>5

LEMMA ClaimStep ==
    ASSUME NoRestartOrDelete
    PROVE  TypeOK /\ ClaimInv /\ [Next]_vars => ClaimInv'
<1> SUFFICES ASSUME TypeOK, ClaimInv, [Next]_vars PROVE ClaimInv'
  OBVIOUS
<1>1. CASE UNCHANGED vars
  BY <1>1, ClaimUnchanged DEF vars, apiVars, cacheVars, memVars, scanWork, jobWork, claimVars
<1>2. ~Crash
  BY DEF NoRestartOrDelete, Crash, Mishap
<1>3. ASSUME NEW s \in Scans, ScanHandler(s) \/ JobHandler(s)
      PROVE  ClaimInv'
  BY <1>3, ScanHandlerClaim, JobHandlerClaim
<1>4. ASSUME NEW s \in Scans,
             PodHandler(s) \/ Cluster(s) \/ Informers(s) \/ Clock(s) \/ Users(s)
      PROVE  ClaimInv'
  BY <1>4, EnvironmentClaim
<1> QED BY <1>1, <1>2, <1>3, <1>4 DEF Next

(* Every Job and every step between a claim and its release belongs to the *)
(* scan currentScanName names, whatever fails, conflicts or expires.       *)
THEOREM ClaimDiscipline ==
    ASSUME NoRestartOrDelete
    PROVE  Spec => []ClaimInv
<1>1. TypeOK /\ ClaimInv /\ [Next]_vars => ClaimInv'
  BY ClaimStep
<1> QED BY <1>1, ClaimInit, TypeCorrect, PTL DEF Spec

(* At most one runner Job exists at any time.                              *)
THEOREM MutualExclusion ==
    ASSUME NoRestartOrDelete
    PROVE  Spec => []SingleRunner
<1>1. ClaimInv => SingleRunner
  BY DEF ClaimInv, SingleRunner
<1> QED BY <1>1, ClaimDiscipline, PTL

-----------------------------------------------------------------------------
(* The abstract specification of the claim (ScanSerial).                   *)

LEMMA SerialInit == Init => Serial!Init
  BY DEF Init, Serial!Init

(* Steps that touch neither the claim nor a Job are stutters of it; a      *)
(* claim, a Job applied, a Job gone and a release are its four actions.    *)
LEMMA SerialStep ==
    ASSUME NoRestartOrDelete
    PROVE  TypeOK /\ ClaimInv /\ [Next]_vars => [Serial!Next]_(Serial!vars)
<1> SUFFICES ASSUME TypeOK, ClaimInv, [Next]_vars
             PROVE  Serial!Next \/ UNCHANGED <<current, jobs>>
  BY DEF Serial!vars
<1> USE DEF apiVars, cacheVars, memVars, queueVars, scanWork, jobWork, histVars
<1>1. CASE UNCHANGED vars
  BY <1>1 DEF vars
<1>2. ~Crash
  BY DEF NoRestartOrDelete, Crash, Mishap
<1>3. ASSUME NEW s \in Scans, ScanHandler(s)
      PROVE  Serial!Next \/ UNCHANGED <<current, jobs>>
  <2>1. CASE ScanLock(s) \/ ScanCallFails(s)
    BY <2>1 DEF ScanLock, ScanCallFails, Blocked, ClaimInv, TypeOK
  <2>2. CASE ScanClaim(s)
    <3>1. current = None /\ UNCHANGED jobs /\ current' \in {current, s}
      BY <2>2 DEF ScanClaim, ClaimInv
    <3> QED BY <3>1 DEF Serial!Next, Serial!Acquire
  <2>3. CASE ScanApply(s) \/ ScanApplyFails(s)
    <3>1. current = s /\ jobs = {} /\ UNCHANGED current /\ jobs' \in {jobs, {s}}
      BY <2>3 DEF ScanApply, ScanApplyFails, CreateJob, ClaimInv
    <3> QED BY <3>1 DEF Serial!Next, Serial!Start
  <2>4. CASE \/ ScanStart(s) \/ ScanGate(s) \/ ScanStatusWrite(s)
             \/ ScanSched(s) \/ ScanMetrics(s)
    BY <2>4 DEF ScanStart, ScanGate, ScanStatusWrite, ScanSched, ScanMetrics
  <2> QED BY <1>3, <2>1, <2>2, <2>3, <2>4 DEF ScanHandler
<1>4. ASSUME NEW s \in Scans, UNCHANGED current, s \in jobs, jobs' = jobs \ {s}
      PROVE  Serial!Next
  <2>1. jobs = {s} /\ jobs' = {}
    BY <1>4 DEF ClaimInv
  <2> QED BY <1>4, <2>1 DEF Serial!Next, Serial!Stop
<1>5. ASSUME NEW s \in Scans, JobHandler(s)
      PROVE  Serial!Next \/ UNCHANGED <<current, jobs>>
  <2>1. CASE JobOfDeletedScan(s) \/ JobRetire(s)
    BY <1>4, <2>1 DEF JobOfDeletedScan, JobRetire
  <2>2. CASE JobRelease(s)
    <3>1. current = s /\ jobs = {} /\ current' = None /\ UNCHANGED jobs
      BY <2>2 DEF JobRelease, ClaimInv
    <3> QED BY <3>1, ScansAssumption DEF Serial!Next, Serial!Release
  <2>3. CASE \/ JobIgnore(s) \/ JobCollect(s) \/ JobComplete(s)
             \/ JobCleanup(s) \/ JobFinish(s) \/ JobCallFails(s)
    BY <2>3 DEF JobIgnore, JobCollect, JobComplete, JobCleanup, JobFinish, JobCallFails
  <2> QED BY <1>5, <2>1, <2>2, <2>3 DEF JobHandler
<1>6. ASSUME NEW s \in Scans, Cluster(s)
      PROVE  Serial!Next \/ UNCHANGED <<current, jobs>>
  <2>1. CASE JobExpires(s) \/ CollectOrphan(s)
    BY <1>4, <2>1 DEF JobExpires, CollectOrphan
  <2>2. CASE StartPod(s) \/ RunnerDone(s) \/ CollectPod(s)
    BY <2>2 DEF StartPod, RunnerDone, CollectPod
  <2> QED BY <1>6, <2>1, <2>2 DEF Cluster
<1>7. ASSUME NEW s \in Scans, PodHandler(s) \/ Informers(s) \/ Clock(s) \/ Users(s)
      PROVE  UNCHANGED <<current, jobs>>
  BY <1>7 DEF PodHandler, PodIgnore, PodMark, Informers, SyncScan, SyncJob, SyncPod,
              SyncConfigMaps, RedeliverScan, RedeliverJob, RedeliverPod, Clock, TimePasses, TimerFires, Users, CreateScan,
              EditScan, DeleteScan
<1> QED BY <1>1, <1>2, <1>3, <1>5, <1>6, <1>7 DEF Next

(* The controller implements the abstract claim: taken from empty, given   *)
(* back when the Job is gone, one Job at a time and only under it.         *)
THEOREM ImplementsSerial ==
    ASSUME NoRestartOrDelete
    PROVE  Spec => Serialised
<1>1. TypeOK /\ ClaimInv /\ [Next]_vars => [Serial!Next]_(Serial!vars)
  BY SerialStep
<1> QED BY <1>1, SerialInit, TypeCorrect, ClaimDiscipline, PTL
        DEF Spec, Serialised, Serial!Spec
=============================================================================
