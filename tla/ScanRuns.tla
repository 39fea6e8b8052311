------------------------------ MODULE ScanRuns ------------------------------
(***************************************************************************)
(* The runs of a scan, phase by phase, as long as nothing goes wrong, or   *)
(* nothing but Jobs that expire: what the API server, the caches, the      *)
(* queues and the workers can hold of it at the same time. This is why the *)
(* properties of ScanController hold.                                      *)
(***************************************************************************)
EXTENDS ScanController

(* Nothing goes wrong, except that profiles may be refused and informers   *)
(* deliver again; or that and Jobs which go away before they are retired   *)
(* (the time to live of a Job is 0 seconds by default).                    *)
NoMishaps == Faults \subseteq {"reject", "resync"}
AtMostExpiries == Faults \subseteq {"reject", "resync", "expire"}

-----------------------------------------------------------------------------
(* Statuses: before a run, during it, and after it until the next.         *)

Unrun(st) ==
    /\ Eligible(st)
    /\ st.ran = "none" /\ ~st.complete
    /\ st.alerted = "none" /\ st.next = "none"
    /\ st.failed => st.pending /\ "reject" \in Faults

Ongoing(st) ==
    /\ st.created /\ st.lastRun
    /\ st.ran # "none"
    /\ st.alerted = "none" /\ st.next = "none"
    /\ st.failed => st.ran = "True" /\ st.shown = "error"
    /\ st.complete => st.ran = "True" /\ (st.failed \/ st.summary # "none")

Over(st, cron) ==
    /\ st.created /\ st.lastRun
    /\ st.ran = "True" /\ st.complete
    /\ (st.next # "none") = cron
    /\ st.failed = (st.alerted = "none")
    /\ st.shown \in (IF st.failed THEN {"error"} ELSE {"pass", "fail"})
    /\ st.observed

-----------------------------------------------------------------------------
(* Pieces of the phases.                                                   *)

Fresh(s, holder) == holder \in fresh[s]

(* A cache that is fresh holds what the API server holds.                  *)
TrueCache(s) == Fresh(s, "cache") => s \in seen /\ scanCache[s] = scan[s]

(* Without a Job there is no runner at work, and the Pod of a past run     *)
(* that the cache has forgotten is gone.                                   *)
NoRunner(s) ==
    /\ s \notin jobs
    /\ pod[s] # "running" /\ podCache[s] # "running"
    /\ podCache[s] = "none" => pod[s] = "none"

(* Reports before, and with, the one of the present run.                   *)
OldReports(s) == reports[s] <= IF Cron(s) THEN Retention ELSE 0
NewReports(s) == reports[s] <= IF Cron(s) THEN Retention + 1 ELSE 1
KeptReports(s) ==
    /\ reports[s] <= IF Cron(s) THEN Retention ELSE 1
    /\ ~scan[s].failed => reports[s] >= 1

RuleNamed(s) == s \in rules => scan[s].rule

(* The worker holds the scan as it is, and as the cache has it, and        *)
(* nothing is queued for it.                                               *)
HoldsFresh(s) == Fresh(s, "scanner") /\ Fresh(s, "cache") /\ s \notin scanQ

-----------------------------------------------------------------------------
(* The phases.                                                             *)

Unborn(s) ==
    /\ s \notin alive
    /\ NoRunner(s) /\ pod[s] = "none"
    /\ spc[s] = "idle" /\ jpc[s] = "idle"
    /\ s \notin rules /\ reports[s] = 0 /\ cms[s] = {}
    /\ s \notin jobCache /\ s \notin timer /\ s \notin scanQ
    /\ fresh[s] = {}
    /\ launches[s] = 0 /\ counted[s] <= 1

(* A pass over an unrun scan: a copy of the scan goes from gate to claim;  *)
(* at apply it names the launch; at status it is Pending or Failed.        *)
Passing(s) ==
    \/ spc[s] = "idle"
    \/ /\ spc[s] \in {"gate", "lock", "claim"}
       /\ HoldsFresh(s)
       /\ scan[s].pending /\ sobj[s] = scan[s]
    \/ /\ spc[s] = "apply"
       /\ HoldsFresh(s)
       /\ Ongoing(sobj[s]) /\ sobj[s].ran = "Unknown"
       /\ scan[s].rule => sobj[s].rule
       /\ podCache[s] = "none"
    \/ /\ spc[s] = "status"
       /\ Unrun(sobj[s]) /\ sobj[s].pending
       /\ Fresh(s, "scanner") => /\ Fresh(s, "cache")
                                 /\ scan[s].pending => s \notin scanQ
                                 /\ sobj[s].rule = scan[s].rule

(* A cache that lags behind an unrun scan has not seen it Pending yet, or  *)
(* no worker looks at it before the next event.                            *)
LaggingUnrun(s) ==
    s \in seen /\ ~Fresh(s, "cache") =>
        \/ Unrun(scanCache[s]) /\ ~scanCache[s].pending /\ scan[s].pending
        \/ s \notin scanQ /\ spc[s] = "idle"

Awaiting(s) ==
    /\ s \in alive
    /\ Unrun(scan[s])
    /\ NoRunner(s)
    /\ jpc[s] = "idle"
    /\ s \notin jobCache /\ s \notin timer
    /\ cms[s] \subseteq (IF spc[s] \in {"claim", "apply"} THEN {"copy"} ELSE {})
    /\ TrueCache(s) /\ LaggingUnrun(s)
    /\ Passing(s)
    /\ s \in rules => scan[s].rule \/ (spc[s] = "apply" /\ sobj[s].rule)
    /\ OldReports(s)
    /\ launches[s] = 0 /\ counted[s] <= 1

(* The Job is there, the launch not saved.                                 *)
Unsaved(s) ==
    /\ s \in alive /\ s \in jobs
    /\ Unrun(scan[s])
    /\ spc[s] = "status" /\ jpc[s] = "idle"
    /\ HoldsFresh(s)
    /\ Ongoing(sobj[s]) /\ sobj[s].ran = "Unknown"
    /\ TrueCache(s)
    /\ pod[s] \in {"none", "running"} /\ podCache[s] \in {"none", "running"}
    /\ cms[s] \subseteq {"copy"}
    /\ s \notin timer
    /\ s \in rules => sobj[s].rule
    /\ OldReports(s)
    /\ launches[s] = 1 /\ counted[s] <= 1

(* The copy of the Job handler completes the scan.                         *)
Completing(s) ==
    /\ Fresh(s, "jobber")
    /\ Ongoing(jobj[s]) /\ jobj[s].complete
    /\ jobj[s].failed = scan[s].failed /\ jobj[s].rule = scan[s].rule
    /\ scan[s].ran = "True" /\ ~scan[s].complete

Collected(s) == scan[s].complete \/ jpc[s] = "complete"

Running(s) ==
    /\ s \in alive /\ s \in jobs
    /\ Ongoing(scan[s])
    /\ spc[s] = "idle"
    /\ jpc[s] = "idle" \/ (jpc[s] = "complete" /\ Completing(s))
    /\ s \in seen /\ TrueCache(s)
    /\ \/ Ongoing(scanCache[s])
       \/ Unrun(scanCache[s]) /\ ~Fresh(s, "cache") /\ s \notin scanQ /\ pod[s] \notin Verdicts
    /\ pod[s] \in Verdicts => s \in jobCache /\ cms[s] \cap {"copy"} \subseteq cmCache[s]
    /\ podCache[s] \in Verdicts => pod[s] = podCache[s]
    /\ scan[s].ran = "True" => podCache[s] \in Verdicts /\ scan[s].failed = (pod[s] # "true")
    /\ ("output" \in cms[s]) = (pod[s] = "true")
    /\ Collected(s) /\ ~scan[s].failed => "output" \in cmCache[s] /\ reports[s] >= 1
    /\ IF Collected(s) THEN NewReports(s) ELSE OldReports(s)
    /\ s \notin timer
    /\ RuleNamed(s)
    /\ launches[s] = 1 /\ counted[s] <= 1

(* The Job is deleted, the final status not saved.                         *)
Retiring(s) ==
    /\ s \in alive
    /\ Ongoing(scan[s]) /\ scan[s].complete
    /\ NoRunner(s)
    /\ spc[s] = "idle"
    /\ jpc[s] \in {"cleanup", "finish"}
    /\ Fresh(s, "jobber")
    /\ Over(jobj[s], Cron(s)) /\ jobj[s].next # "past"
    /\ jobj[s].failed = scan[s].failed /\ jobj[s].rule = scan[s].rule
    /\ jobj[s].alerted \in {"none", "Unknown"}
    /\ s \in seen /\ TrueCache(s) /\ Ongoing(scanCache[s])
    /\ cms[s] \subseteq (IF jpc[s] = "cleanup" THEN cmCache[s] ELSE {})
    /\ s \in timer => Cron(s)
    /\ RuleNamed(s) /\ KeptReports(s)
    /\ launches[s] = 1 /\ counted[s] <= 1

(* What is due after a run of a scan with a ScheduledScanConfig, the       *)
(* metrics and the Alerted condition, is on its way until it is done, and  *)
(* done once.                                                              *)
Unresolved(s) == scan[s].alerted = "Unknown"

MetricsDue(s) ==
    HasConfig(s) =>
        /\ counted[s] <= 1
        /\ Unresolved(s) =>
              /\ counted[s] = 0
              /\ ~Fresh(s, "cache") \/ s \in scanQ \/ spc[s] \in {"sched", "metrics"}

(* The next run is due.                                                    *)
RerunDue(s) ==
    /\ Fresh(s, "cache") /\ ~Unresolved(s)
    /\ jpc[s] = "idle" /\ s \notin jobCache
    /\ s \in timer => spc[s] = "idle" /\ s \notin scanQ

(* The scan is as its last run left it.                                    *)
Resting(s) ==
    /\ s \in alive
    /\ Over(scan[s], Cron(s))
    /\ NoRunner(s)
    /\ jpc[s] \in {"idle", "release"}
    /\ cms[s] = {}
    /\ s \in seen /\ TrueCache(s)
    /\ \/ Ongoing(scanCache[s])
       \/ Over(scanCache[s], Cron(s)) /\ (Fresh(s, "cache") \/ (s \notin scanQ /\ ~Unresolved(s)))
    /\ \/ spc[s] = "idle"
       \/ /\ HoldsFresh(s) /\ sobj[s] = scan[s]
          /\ \/ spc[s] = "sched" /\ Cron(s)
             \/ spc[s] = "metrics" /\ Unresolved(s)
    /\ MetricsDue(s)
    /\ scan[s].next = "past" => RerunDue(s)
    /\ s \in timer => Cron(s)
    /\ RuleNamed(s) /\ KeptReports(s)
    /\ launches[s] = 1

(* The Job expired before its run was retired: the launch may still be     *)
(* saved, the end of the run marked and its results collected, but the run *)
(* is not retired, and the claim is kept.                                  *)
StrandedUnsaved(s) ==
    /\ Unrun(scan[s])
    /\ spc[s] = "status" /\ jpc[s] = "idle"
    /\ HoldsFresh(s)
    /\ Ongoing(sobj[s]) /\ sobj[s].ran = "Unknown"
    /\ pod[s] \in {"none", "running"} /\ podCache[s] \in {"none", "running"}
    /\ s \notin timer
    /\ s \in rules => sobj[s].rule
    /\ OldReports(s)

StrandedSaved(s) ==
    /\ Ongoing(scan[s])
    /\ spc[s] = "idle"
    /\ jpc[s] = "idle" \/ (jpc[s] = "complete" /\ Completing(s))
    /\ s \in seen
    /\ \/ Ongoing(scanCache[s])
       \/ /\ Unrun(scanCache[s]) /\ ~Fresh(s, "cache")
          /\ s \notin scanQ /\ s \notin timer
          /\ pod[s] \notin Verdicts /\ podCache[s] \notin Verdicts
          /\ scan[s].ran # "True"
    /\ Collected(s) /\ ~scan[s].failed => reports[s] >= 1
    /\ IF Collected(s) THEN NewReports(s) ELSE OldReports(s)
    /\ RuleNamed(s)

Stranded(s) ==
    /\ "expire" \in Faults
    /\ s \in alive /\ s \notin jobs /\ current = s
    /\ TrueCache(s)
    /\ StrandedUnsaved(s) \/ StrandedSaved(s)
    /\ launches[s] = 1 /\ counted[s] <= 1

Phase(s) == \/ Unborn(s) \/ Awaiting(s) \/ Unsaved(s) \/ Running(s)
            \/ Retiring(s) \/ Resting(s) \/ Stranded(s)

(* Whoever is past the first runner check came there before the runner of  *)
(* the run under way was seen, and that run does not end before he leaves, *)
(* or keeps the claim for ever.                                            *)
GateHolds ==
    (\E s \in Scans : spc[s] \in {"lock", "claim"}) =>
        \/ ~RunnerSeen
        \/ \E t \in jobs : pod[t] \notin Verdicts
        \/ \E t \in Scans : spc[t] = "apply"
        \/ \E t \in Scans : Stranded(t)

(* Every scan is in a phase of its run: what API server, caches, queues    *)
(* and workers hold of it fits together (all five handlers).               *)
RunInv ==
    /\ orphans = {}
    /\ \A s \in Scans : Phase(s)
    /\ GateHolds

(* The final status shows what it says, before and after it is saved.      *)
Shows(st, strict) == st.shown = ShownState(st, strict)

DisplayInv ==
    \A s \in Scans : /\ Retiring(s) => Shows(jobj[s], Strict(s))
                     /\ Resting(s) => Shows(scan[s], Strict(s))

-----------------------------------------------------------------------------
(* What a user sees of the runs.                                           *)

(* The stage of a scan: its Job is there, until its Pod carries the        *)
(* completion annotation and after; the Job handler is on its way to the   *)
(* final status; the scan is complete, or its run is still to come.        *)
StageOf(s) ==
    CASE s \notin alive -> "none"
      [] s \in alive /\ s \in jobs -> IF pod[s] \in Verdicts THEN "ended" ELSE "running"
      [] s \in alive \ jobs /\ jpc[s] \in {"cleanup", "finish"} -> "retiring"
      [] OTHER -> IF scan[s].complete THEN "done" ELSE "asked"

(* How its run ended: what the runner said while its Pod is there, what    *)
(* the conditions say while the final status is pending, then what the     *)
(* display of the scan shows.                                              *)
OutcomeOf(s) ==
    CASE StageOf(s) = "ended"    -> IF pod[s] = "true" THEN "completed" ELSE "failed"
      [] StageOf(s) = "retiring" -> IF scan[s].failed THEN "failed" ELSE "completed"
      [] StageOf(s) = "done"     -> IF scan[s].shown = "error" THEN "failed" ELSE "completed"
      [] OTHER -> "none"

stages   == [s \in Scans |-> StageOf(s)]
outcomes == [s \in Scans |-> OutcomeOf(s)]
dues     == {s \in alive : scan[s].next = "past"}

(* Scans are run once, one after the other, with the outcome of their      *)
(* runner, and again when they are due: the handlers together, whatever    *)
(* their interleaving, do what ScanLife says.                              *)
Life == INSTANCE ScanLife
    WITH Repeated <- {s \in Scans : Cron(s)}, stage <- stages, outcome <- outcomes, due <- dues
Lived == Life!Spec
=============================================================================
