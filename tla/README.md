# Verification of cis-operator

cis-operator is a Kubernetes operator. A user creates a `ClusterScan`; the operator launches a
runner Job for it, waits for the runner's Pod to carry a completion annotation, turns the runner's
output ConfigMap into a `ClusterScanReport`, takes the Job down again and, for a scheduled scan,
arms the next run. One scan is meant to run at a time. All of this happens in five callbacks that
share a mutex, one process variable and whatever the API server and the informer caches say.

This directory holds TLA+ modules of that machine, TLC configurations for small instances of it,
and proofs checked by TLAPS for every instance.

## 1. Inventory of the system

| Part | Source | State | Operations | Talks to |
|---|---|---|---|---|
| Scan handler | `pkg/securityscan/scanHandler.go` | `currentScanName`, `mu` | first pass, runner checks, profile and schedule validation, claim, launch | API server (live Get, ConfigMap and PrometheusRule Create), Job and Pod caches |
| Generated status handlers | `pkg/generated/.../clusterscan.go` | none | apply the objects, then UpdateStatus; drop the status on an error | API server |
| Scheduled-scan handler | `scheduledScanHandler.go` | timers of EnqueueAfter | arm, reset for the next run, validate, purge reports | live scan |
| Metrics handler | `scanMetricsHandler.go` | Prometheus vectors | count a finished run, resolve Alerted | live scan |
| Job handler | `jobHandler.go` | none | collect, complete, retire, clean up, release the claim | live scan, ConfigMap, Pod and Job caches |
| Pod handler | `podHandler.go` | none | mark the end of a run | live scan, Job cache |
| Display | `setClusterScanStatusDisplay` | `Status.Display` | derive what users see | - |
| Object builders | `core/`, `job/`, `alert/` | none | Job, Service, ConfigMaps, PrometheusRule | custom benchmark's ConfigMap |
| Profile selection | `scanHandler.go:174-298` | none | pick and validate a profile, for a launch and for a report | profiles, benchmarks, default map, `KubernetesVersion` |
| Cluster detection | `controller.go:199-225` | `KubernetesVersion`, provider | refresh the version, without a lock | API server |
| Conditions | `pkg/condition` | list in the status | True, False, Unknown, messages, errors and tests, by reflection | - |
| API types, CRDs, generated clients, flags, chart | `pkg/apis`, `pkg/crds`, `pkg/generated`, `main.go`, `chart` | data | - | - |

How they interact. The five handlers run on the workqueues of three controllers (ClusterScan, Job,
Pod), `--threads` workers each, at most one worker per key. The three ClusterScan handlers run one
after another on the same key and each gets the object the previous one returned. The Job and Pod
handlers read the scan live, the scan handlers get it from the cache and work on copies. A handler
wakes another through the API server (its write comes back as a watch event) or by `Enqueue`.
`currentScanName` is set by the scan handler under `mu` and emptied by the Job handler without it.

What is hard. (1) Every pass is a sequence of API calls, each of which can fail, conflict with an
edit, or be the last thing the process did. (2) Caches, queues and the mutex interleave. (3) The
state of a run is spread over conditions, the Job, the Pod, ConfigMaps and process memory, and
these are changed one at a time. (4) Retrying a pass repeats what it had done. `PROJECT.json` lists
each hazard at its line.

What makes it correct.

* Scan and Job handler together: one runner at a time; the claim on it is taken, backed and given back.
* Job handler: one report per run, of the benchmark of that run; no Job taken away from a run that is not
  over; cleanup complete, and of the scan's own; a completed scan always gets its final status.
* Scan handler: a run asked for is launched once, fails only for a cause, every scan finishes.
* Scheduled-scan handler: not early, not never, again and again; the reports it owes are kept, no more.
* Profile selection: the profile exists and fits the cluster as it is, whoever wrote its version last.
* Conditions: one of each type, none of a past run, and what is set is read back.
* Metrics handler: each run counted once (which the code keeps for scans with a `ScheduledScanConfig` only).
* Display: one of the states users know, the one the conditions and the summary call for.

## 2. Modules

| Module | Role |
|---|---|
| `ScanStatus` | The status record of a ClusterScan, the guards handlers evaluate on it and what each makes of it. Pure operators. |
| `ScanController` | The controller: five handlers, the generated status handler, API server objects, caches, queues, mutex, timers, runner, users, faults. Its properties. |
| `ScanSerial` | Abstract specification of `currentScanName`: Acquire, Start, Stop, Release. `ScanController` implements it with `claim <- current, running <- jobs`. |
| `ConditionList` | `Status.Conditions` as a list, and the accessors of `pkg/condition` on it. Pure operators. |
| `ScanConditions` | The calls each handler makes on that list, and that they say what `ScanStatus` says. Extended by `ScanController`. |
| `ProfileSelection` | Which profile a scan runs with and whether its benchmark fits. Pure operators. |
| `ScanArtifacts` | What runs leave behind under names (outputs, reports, the default profiles), and the profiles they are made for, chosen by passes that share `KubernetesVersion` while the cluster is upgraded. |
| `ScanLife` | Abstract specification of the life of the scans, as users see it: Ask, Launch, End, TakeDown, Retire, FallDue, Again. |
| `ScanRuns` | The phases of a run of `ScanController` while nothing goes wrong but Jobs that expire (the inductive invariant of section 5), and the mapping by which it implements `ScanLife`. |
| `MCScanController` (extends `ScanRuns`), `MCScanArtifacts` | Model-checking modules; the `.cfg` files choose the instance. |
| `ScanControllerProofs`, `ScanRunProofs`, `ConditionListProofs`, `ScanConditionsProofs`, `ScanArtifactsProofs`, `ScanSelectionProofs`, `ScanRetentionProofs` | Theorems and their proofs. |
| `LeastElement` | A lemma on the least element of a set of naturals. |

`ScanController` and `ScanArtifacts` look at the same runs from two sides. The first has the machinery (Jobs,
Pods, caches, conflicts, restarts) and takes the choice of a profile and the number of reports for granted:
a profile that does not validate is the free outcome `reject`, retention is a number. The second has names,
profiles, versions and the age of reports, and takes the machinery for granted: a run is a stage of its scan.
Together they would be far beyond TLC, and neither side's hazards need the other's detail.

### State and code

`alive, scan, jobs, orphans, pod, cms, rules, reports` are objects on the API server, keyed by the
name of their scan (every object's name is derived from it). `seen, scanCache, jobCache, podCache,
cmCache` are the informer caches. `fresh[s]` is the set of copies of scan `s` (the cache, the scan
worker's, the Job worker's) still at its current resourceVersion: it stands for the comparison the
API server makes, and costs no counter. `current, mu, timer` are process memory; `scanQ, jobQ, podQ`
the queues; `spc/sobj` and `jpc/jobj` the program counter and the local copy of the worker on a key.
`launches, counted, mishaps` are history and bounds; no handler reads them.

In `ScanArtifacts`, `version, profiles, unparsable, defaults, outputs, reports` are objects of the cluster (`unparsable`: the
scans whose CronSchedule is not one), `known` is `KubernetesVersion`, `claim` is `currentScanName`, `pass[s]` is the call of `getClusterScanProfile` in progress
for `s` (its local variables), `stage[s]` stands for Job, Pod and conditions of the run. `made`, `filed`,
`origin` and the fields `used`, `raced`, `least` of a pass are history that no action reads (`made` also bounds
the runs and dates the reports).

### Actions and code

A handler pass is cut where another handler, the cluster or a crash can come between two effects:
at each API call that changes something, and at the mutex.

| Actions | Code |
|---|---|
| `ScanStart` | pop, cache read, eligibility, first pass (`scanHandler.go:30-50`) |
| `ScanGate` | runner checks, profile, schedule (`51-77`) |
| `ScanLock` | mutex, `currentScanName`, benchmark, ConfigMap copy (`78-112`) |
| `ScanClaim` | recheck, alert rule, new status, claim, deferred unlock (`114-151`) |
| `ScanApply`, `ScanApplyFails` | `Handle` (`clusterscan.go:161-184`) |
| `ScanStatusWrite`, `ScanCallFails` | `sync` (`clusterscan.go:93-130`) |
| `ScanSched`, `ScanMetrics` | the two other ClusterScan handlers |
| `JobIgnore`, `JobOfDeletedScan` | early returns and orphans of `handleJobs` |
| `JobCollect`, `JobComplete` | output, report, Complete (`98-120`) |
| `JobRetire`, `JobCleanup`, `JobFinish`, `JobRelease` | retirement (`62-96`), one action per effect |
| `PodIgnore`, `PodMark` | `handlePods` |
| `StartPod`, `RunnerDone`, `JobExpires`, `CollectOrphan`, `CollectPod` | external: Job controller, runner, TTL, garbage collection |
| `SyncScan`, `SyncJob`, `SyncPod`, `SyncConfigMaps` | external: informers |
| `RedeliverScan`, `RedeliverJob`, `RedeliverPod` | external: informers resync and relist, so unchanged objects are handled again |
| `TimePasses`, `TimerFires` | external: clock, EnqueueAfter |
| `CreateScan`, `EditScan`, `DeleteScan` | external: users |
| `Crash` | the process restarts |

In `ScanArtifacts`:

| Actions | Code |
|---|---|
| `Detect`, `Compare`, `WriteHalf`, `Write` | `refreshClusterKubernetesVersion` (`controller.go:199-208`), the assignment in two halves |
| `Choose` | the named profile or `getDefaultClusterScanProfile`, and its Get (`scanHandler.go:183-195`) |
| `Validate` | `validateClusterScanProfile` (`196-201`), for a launch also `validateScheduledScanSpec` (`65-72`) |
| `Launch` | from the mutex to the claim (`77-151`) |
| `RunEnds` | external: runner and `handlePods` |
| `FileReport` | `getScanResults`, Create, Complete (`jobHandler.go:98-120`) |
| `Purge`, `Sweep`, `Release` | retirement (`62-96`) |
| `Rerun` | reset of a scheduled scan |
| `Upgrade`, `RemoveProfile`, `EditSchedule` | external: the cluster, users |

### Abstractions

Of `ScanController`:

* Timestamps: `LastRunTimestamp` set or not, `NextScanAt` empty, to come or past. A condition is a field of the
  status; messages, reasons and update times are in `ScanConditions`. `Summary` is absent, clean, warned or failing.
* The kind of a scan is two constants: `Planned` are the scans with a `ScheduledScanConfig`, which is what the
  metrics and alert code asks, `Scheduled` those of them with a `CronSchedule`, which is what reruns ask.
* An informer jumps to the live state; intermediate versions of an object are not delivered one by one.
  It may deliver an unchanged object again at any time (fault `resync`). Unless `lag` is on, a scan is delivered
  again only while its cached copy is the live one, no pass over it is in progress and its timer is not about
  to fire: a resync that falls into those milliseconds is a case of `lag`, and does what `lag` does.
* One Pod per runner Job. The DaemonSet of `ensureCleanup` is left out.
* A profile that does not validate (or cannot be read) is the outcome `reject` of `ScanGate`, chosen freely.
* A call that fails in `JobCollect` or `JobOfDeletedScan`, or in the purge of `JobRetire`, leaves the key
  queued and nothing behind that the next pass does not do again: it is a stutter and has no action. The
  other calls that fail are alternatives of `JobRetire` (the Job's deletion), `ScanLock` (the ConfigMap's
  copy) and `ScanClaim` (the alert rule), or the actions `ScanCallFails` and `JobCallFails`.
* A new scan takes the name of a deleted one only once no handler is in the middle of a pass over the old
  one, and in the runs only if the fault `reuse` is on.
* Slow against fast: unless the fault `lag` is on, a run, and the wait for the next, end only once the
  operator has saved and seen the state of the scan (`Settled`). A run takes minutes, a watch event
  milliseconds; without this TLC's counterexamples are all of one kind, a handler asleep for a whole run.
  `ScanControllerProofs` does not use it: its theorems hold with `lag`. Those of `ScanRunProofs` do. Without it
  a Pod that ends before its Job is cached is never collected (`EveryScanFinishes` fails), and a scan that is
  handled on an old copy is counted again.
* One operator process (the chart leaves `replicas` at one).

Of `ScanArtifacts` and the modules under it:

* A name is the sequence of its words, which the code joins with dashes, so a prefix that ends in a dash is a
  prefix of words. `strings.Contains` also finds a name in the middle of a word; that is left out, and
  `OutputKept`, which is about it, is proved without looking at names at all. `SafeConcatName` keeps the
  first `MaxWords` words; that it puts a hash in place of the rest, and names too long for a label, are left out.
* Kubernetes versions are points in their order, a range is the set of versions in it. Upgrades go up. The
  parser is left out, but not that a line has no range, an empty one, or one that does not parse.
* A string that is read while it is written is the old one, the new one, a version the text of the new one
  cut short could be (an earlier one), or no version (`Torn`).
* A schedule parses or not (`unparsable`); when it is due is left out. A run in progress takes the live one.
* Reports are created one at a time, so no two have the same creation time. Users delete profiles, not
  reports or outputs.
* The provider is a constant: it is detected once, before the handlers start.
* Conditions: the reflection and `LastTransitionTime`, which nothing writes, are left out; times are seconds,
  as RFC 3339 prints them.

## 3. Faults

`Faults` names what may go wrong in an instance, `MaxMishaps` bounds how often (rejections and re-deliveries are free).

`crash` the process restarts anywhere; `restart` it does so between handler passes; `delete`, `reuse`, `edit`
by users; `api` a call to the API server fails; `apply` only some objects of a scan are created; `expire` the
Job goes away under the operator (`ttlSecondsAfterFinished` is 0 by default, or eviction); `reject`; `lag`; `resync`, no fault at all but the
informers' delivering again what they have delivered. It is among the `Faults` so that liveness is not owed to it:
`progress` and `recurring` show that the system goes on without a resync, which the code never waits for.

## 4. Runs

Bounds, the same reason everywhere: two scans are what it takes for one to compete with another; two
workers (`Threads = 2`, the default of the flag) let both be handled at once; `Retention = 1` makes the
second run of a scheduled scan reach the purge; `MaxReports = 3` is above `Retention + 1`, so the count is
never cut where a property looks; one mishap, because each property that a single fault breaks is broken
by it already. `launches` and `counted` stop at 2, one above what the properties allow.

| Run | Instance | Shows |
|---|---|---|
| `undisturbed` | an on-demand scan of a custom benchmark and a strict scheduled one with an alert rule; no faults, re-deliveries at any time | types; one runner; the claim is backed; launched once; copy cleaned up; completed scans get their final status; no run cut short; the phases of a run (`RunInv`), round after round; implements `ScanSerial` and `ScanLife` |
| `expiring` | a scheduled scan with alert rule and custom benchmark beside an on-demand one; profiles may be rejected, a Job may expire at any moment of its run, re-deliveries at any time | one report per run and retention; marks follow launches; runs of a scan with a `ScheduledScanConfig` counted once (`PlannedCountedOnce`); not relaunched or reset early; an alert rule that exists is on record; the phases of a run, with that of the stranded one (`RunInv`) |
| `mishaps` | one scheduled scan with an alert rule and a custom benchmark; an edit, a failed call, a failed apply or an expired Job at any point | `ClaimInv` (inductive, see 5) and the abstract specification survive |
| `progress` | two on-demand scans, fair | every scan finishes with a verdict |
| `recurring` | one strict scheduled scan with an alert rule and a custom benchmark, runs that end in a warning or in error, fair; a deletion or a restart between passes | it runs for ever; failed only for a cause, never for a copy of the benchmark that a run before has left; the display of a retired scan tells its result; the handlers' calls on the list of conditions agree with the status |
| `artifacts` | an on-demand scan `default` that names a profile, a scheduled scan `my-default` that leaves it open; one upgrade that changes the default profile and ends the benchmarks of the others; the named profile may be deleted, the schedule edited to one that does not parse and mended; fair | cleanups and retentions take what is theirs; profiles fit a recent version; reports are of the benchmark of their run; a run is retired unless its profile is gone or no longer fits, or its schedule does not parse |

`artifacts` has 742 000 states: one upgrade is what makes a choice stale, four runs let the scheduled scan
reach its default retention (3) and exceed it, and two scans, one with its name within the other's and within
that of the ConfigMap of default profiles, are what cleanup by substring takes.

Six runs end in a counterexample, each a disagreement between the code and what it says of itself:

| Run | Property | What happens |
|---|---|---|
| `wedged` | `ClaimBacked` | The Job is deleted before the final status is saved. An edit in between makes the save conflict; the retry finds no Job and returns, so `currentScanName` is never emptied. Every other scan waits until that scan is deleted or the process restarts. |
| `cutShort` | `NoRunCutShort` | The status of a launch is refused (edit), the scan is launched again after its first run, and the second Job is deleted because the live scan still carries Complete of the first run. |
| `recounted` | `CountedOnce` | An on-demand scan keeps Alerted=Unknown; every later event of it increments `cis_scan_num_scans_complete`. No fault is needed, nor a change of the scan: a re-delivery by the informer is enough. `PlannedCountedOnce` is what does hold. |
| `clobbered` | `SingleRunner` | After a restart during a run, the release of that run's retirement empties the claim another scan has just made; a third pass launches a second runner beside it. |
| `overreach` | `RetentionKept` | Two scheduled scans, `web` and `web-prod`: the retention of the first counts and deletes the reports of the second. |
| `uncollected` | `RunRetired` | One scan suffices: the cluster is upgraded during its run past what the scan's benchmark is for; the profile is validated again for the report, the collection is retried for ever, and `currentScanName` keeps every other scan waiting. |

With one mishap of other kinds most properties about runs fail too, for the same two reasons (a lost launch
status, a retirement that cannot be retried): for instance an API error at the status of a launch breaks
`LaunchedOnce` and `MarkFollowsLaunch`, a failed save in `JobComplete` breaks `ReportPerRun`, an expired Job
breaks `RetirementPending`. A failed apply that creates no Job
leaves a claim that its own retry waits for, and so does a scan deleted and created again under its name
(`ClaimBacked`). `undisturbed` therefore checks without faults, which says that the interleavings
of handlers, caches, re-deliveries and runners alone break nothing, and `expiring` with expired Jobs what these do not break.

Deadlock is not checked: where `artifacts` has done its runs, or when all on-demand scans are finished, or
a rejected one is left alone, the system rightly stops.

### Fairness

`FairSpec` assumes weak fairness of every step of a worker in the middle of a pass, of the Pod handler, of
the informers, of the Job controller, of the runner, of garbage collection and of the clock: each of these
goes on by itself. Strong fairness is assumed of `ScanStart`, `ScanLock` and the Job handler: the
workqueue is FIFO, so a key put back again and again is popped again and again, and Go's mutex hands over
to a starved waiter. Nothing is assumed of users, edits, deletions, restarts or faults.

`ScanArtifacts!FairSpec` assumes weak fairness of the steps of each scan's pass and of each stage of its run:
a handler whose pass ended in an error is queued again, a runner ends. Nothing is assumed of upgrades, of
users, or of the next run of a scheduled scan.

## 5. Proofs

### Controller

`ScanControllerProofs`, for any set of scans, any kinds, any number of workers, any bounds and any number
of faults of the kinds allowed:

* `TypeCorrect`: `Spec => []TypeOK`. `TypeOK` is inductive. The vocabulary of `ScanStatus` is typed first
  (`RefreshedType`, `ScanStatusType`, `OutcomeStatusType`), then the helpers of the steps, then each action.
* `ClaimDiscipline`: `Spec => []ClaimInv`, assuming `NoRestartOrDelete`.
* `MutualExclusion`: `Spec => []SingleRunner`, from `ClaimInv`.
* `ImplementsSerial`: `Spec => Serialised`, the refinement of `ScanSerial`.

Why a strengthening. `SingleRunner` says nothing of `currentScanName`; the runner checks cannot carry it,
because they read caches. `ClaimInv` adds what does: the only Job there can be is that of the scan
`currentScanName` names; a worker between claim and apply, and a Job handler between deletion and release,
belong to that scan, never both; whoever is past the mutex holds it and found the name empty; and the name,
when not empty, is that of a scan that exists, so nobody else passes `isScanPresent`.

Why the assumption. `NoRestartOrDelete` excludes `crash`, `restart` and `delete`. It is needed: `clobbered`
refutes `SingleRunner` with one restart, and a scan deleted between claim and apply gets a Job while the
next scan takes the runner. Edits, conflicts, failed calls, failed applies, expired Jobs, rejections
and lag are all allowed, any number of times.

### Runs

`ScanRunProofs`, for any scans, kinds, verdicts, outcomes, numbers of workers and retention, under one of two
assumptions on the faults: `AtMostExpiries` (`Faults \subseteq {"reject", "resync", "expire"}`, any number of expired Jobs)
or `NoMishaps` (`Faults \subseteq {"reject", "resync"}`). Both let the informers deliver anything again, any number
of times.

* `RunPhases`: `Spec => []RunInv`, under `AtMostExpiries`. At every moment each scan is in one of seven phases,
  *Unborn, Awaiting, Unsaved, Running, Retiring, Resting, Stranded*. A phase says what API server, caches, queues,
  timer and workers may hold of the scan together: which of its copies may be stale and in which way, who may be
  in the middle of what, and which event still pending will take it further. A run is *Stranded* once its Job has
  expired before it was retired: its end may still be marked and its report made, and it keeps the claim.
* From `RunInv` alone: `LaunchesOnce`, `CountsOnce` (of
  `PlannedCountedOnce`; an on-demand scan is counted again on any re-delivery), `FailsForCause`, `ReportsPerRun`, `MarksFollowLaunch`,
  `RulesRecorded`. From `RunInv` and a step: `LaunchesAreTimely`, `RerunsAreTimely`. So a Job that expires, which
  by default may be at any moment after its run, spoils neither reports nor counts nor times.
* `ExpiryLocksOut`, the price: a stranded run stays stranded, and no other scan gets a Job again (until the scan
  is deleted or the process restarts, which the assumption excludes).
* Under `NoMishaps`, where nothing is stranded: `ClaimIsBacked` (an induction of its own upon `RunInv`),
  `CopyIsCleaned`, `RetirementIsPending`, `NoRunIsCutShort`, and with `DisplayInv`, `DisplayIsRight`.
* `LivesAsPromised`: `Spec => Lived`, the refinement of `ScanLife`, under `NoMishaps`. The stage of a scan is read
  off its Job, its Pod, the Job handler and Complete; its outcome is what the runner said while there is a Pod,
  then what the conditions say, then what the display shows: that these three agree is what has to be proved.

How the proof goes. Only steps of its own handlers, objects and events change what a phase says of a scan
(`Elsewhere`). Then one lemma per phase, one step per action: `FromUnborn`, `FromAwaiting`, `FromUnsaved`,
`FromRunning`, `FromRetiring`, `FromResting`, `FromStrandedUnsaved`, `FromStrandedSaved` show that a scan stays in
its phase or goes on to the next, never back and never skipping one (`Resting` leads to `Awaiting`, an expiry
from `Unsaved` and `Running` to `Stranded`). Three facts concern several scans. `GateHolds`: the runner check
of `ScanGate` reads caches and is over before the mutex is taken, so while somebody is past it, either no runner
is seen yet, or one launched since the check has not ended, or one is about to be launched, or a stranded run
keeps the claim anyway; `JobGone` and `RunnerSeenStep` carry it. That a stranded run keeps the claim
(`ClaimStays`) and that the claim is backed (`BackedStep`) use `ClaimInv` of the controller's proofs.

Why a strengthening. None of the properties is inductive: whether a cached copy makes the scan handler launch a
run twice depends on which writes the cache may have missed, that on what is queued, and that on where the
workers are. For instance a cache that lags may show an unrun scan while the run is on, but then nothing is
queued for that scan, and the event that refreshes the cache queues it (`LaggingUnrun`, `Running`).

Why the assumptions. They are those of the runs `undisturbed` and `expiring`; `recurring` shows `FailedForCause`
and `DisplayTells` through a deletion or a restart as well, of one scan. They are needed. With one
scheduled scan with an alert rule and a custom benchmark, TLC finds each of these properties violated by a single
`edit`, a single failed call (`api`), a single failed `apply`, and by `lag`. A single Job that expires breaks
`ClaimBacked`, `CopyCleaned`, `RetirementPending`, `DisplayTells`, `NoRunCutShort` and `Lived`. A `delete` breaks
`Lived` (which has no deletion) and `PlannedCountedOnce`. With two scans, a restart lets a second run launch while the
first one goes on, and breaks `CopyCleaned`, `FailedForCause` and `Lived`. `MaxReports`, the bound of the model on
counted reports, is positive so that one can be counted.

### Conditions

`ConditionListProofs`, for every list, finite sequence of conditions of any type: `StatusWritten`,
`MessageWritten`, `ErrorRecognised`. They rest on one fact about `Put` (`PutProperties`): the first entry of
its type is the one that changes, it is made if there is none, and a list without duplicates stays so
(`Wrote`). `ScanConditionsProofs` uses them on the calls of a rejection: the last of its calls to touch
`Failed` writes the present second into a list that was emptied before, so a second rejection
leaves the list as it is exactly if no second has passed (`RejectionIdempotent`, for every list whatever). A
rejected scan is handled again because its status changed, so it is rewritten as long as its passes fall into
different seconds; `Reject` allows both that the status changes and that it does not.

`ListsAgree`: for every status and every time, the calls that each handler makes on the list of conditions leave a
list with one entry per type and the values `ScanStatus` gives that handler's result. The proof carries two
facts along the calls, one step per call: the list tells the status (`Tells`: same values, same types
present) and no type is there twice. `ConditionsAlwaysAgree` is `Spec => []ConditionsAgree`, with no assumption on
the faults: the statuses in the cluster, in caches and with workers are all of type `Status` (`TypeCorrect`).

### Artifacts

For any scans, names, profiles, benchmarks, retention counts (naturals), upgrades and runs:

* `TypeCorrect`, from `TypeInv`: `TypeOK` and that a run files at most one report (`filed` never passes `made`).
* `OutputsKept` and `FreshReportsKept`, from `FiledInv`: a run in progress has the claim, so there is at most
  one; outputs belong to runs between their end and their own cleanup; reports are numbered by their run, so
  the report of the present run is the youngest of all and `Purged` never has it. That `Retained` is never 0
  (0 stands for `DefaultRetention`) is what makes this work.
* `AlwaysValidatedRecently` and `ReportsOfTheirRuns`, from `SelectionInv`: whatever `known` is, unless some
  pass is between `WriteHalf` and `Write`, it is at least what the oldest pass in progress was told, and at
  most the version of the cluster (`ToldInv`, `KnownInv`); a choice that was not raced is the choice for one
  of these versions (`ChosenInv`), and the launch of a run hands it on (`OriginInv`).
* `RetentionIfApart`: assuming `NamesApart` (the prefix that a scan purges by matches its own reports and no
  others), `Spec => []RetentionKept`. The invariant counts: of each scan there are as many reports as are due,
  one more between filing and purge, and then the purge takes exactly the oldest (`OldestGoes`) or nothing
  (`NoneGoes`). The assumption is needed: `overreach` is the counterexample without it.

Assumptions on the constants are the named ASSUMEs of `ScanController`, `ProfileSelection` and
`ScanArtifacts`, and that literal strings are strings (`LiteralAssumption`, `TypeAssumption`), which the
provers do not know by themselves. TLC evaluates all of them in the runs.

Only model-checked: liveness (`EveryScanFinishes`, `RunsForever`, `RetiredOrStranded`), which is out of the
prover's reach. Every other property of a passing run is a theorem. Two scans with edits (about ten million states) are
beyond a short run; for them the claim rests on the proof.

## 6. Not modelled

Templates, Pod specs and the text of alert rules (data only); the detection of the provider (a library, once);
CRD creation (called by nobody); generated clients; flags. A panic of a handler (nil `Summary` at
`scanMetricsHandler.go:31`, nil live config at `:56`, a negative `RetentionCount` at
`scheduledScanHandler.go:145`) is a restart. Edits that change the kind of a scan (schedule added or removed)
are not among the edits. Of `ensureCleanup` the DaemonSets and Pods by prefix are left out of `ScanArtifacts`:
by the time of a cleanup no other run has a Pod.

## 7. Plan

What is left, in this order.

1. Edits that change the kind of a scan, and the panics they reach.
2. Two operator processes (an upgrade without a recreate strategy): `currentScanName` per process, one cluster.
3. Proofs: the properties of runs that outlive a restart between passes, under that weaker assumption (the caches
   listed anew, the timer and the claim gone); `ScanLife` with deletions and with stranded runs.
4. Starvation of a pending on-demand scan by a scheduled one (a queue with an order).
