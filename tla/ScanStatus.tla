----------------------------- MODULE ScanStatus -----------------------------
(***************************************************************************)
(* The status of a ClusterScan custom resource, and what each handler of   *)
(* the operator does to the copy of it that it holds.                      *)
(*                                                                         *)
(* A condition of Status.Conditions is a field here: a condition that the  *)
(* handlers only ever set to True is a BOOLEAN, one that goes through      *)
(* Unknown keeps its value ("none" when the list has no such condition).   *)
(* Timestamps are reduced to what the guards ask of them: LastRunTimestamp *)
(* is set or empty, NextScanAt is empty, in the future or in the past.     *)
(* Messages, reasons and update times of conditions are left out.          *)
(***************************************************************************)

(* Status.Summary is nil, or counts of tests: nothing above Pass, some     *)
(* Warn, or some Fail.                                                     *)
Summaries == {"none", "clean", "warned", "failing"}

Status == [pending   : BOOLEAN,                            \* Pending is True
           created   : BOOLEAN,                            \* Created is True
           ran       : {"none", "Unknown", "True"},        \* RunCompleted
           complete  : BOOLEAN,                            \* Complete is True
           failed    : BOOLEAN,                            \* Failed is True
           alerted   : {"none", "Unknown", "False", "True"},
           lastRun   : BOOLEAN,                            \* LastRunTimestamp # ""
           next      : {"none", "later", "past"},          \* NextScanAt
           summary   : Summaries,
           observed  : BOOLEAN,           \* ObservedGeneration = Generation
           rule      : BOOLEAN,                            \* ScanAlertingRuleName # ""
           shown     : {"none", "pending", "running", "reporting",
                        "error", "fail", "pass"},          \* Display.State
           moving    : BOOLEAN]                            \* Display.Transitioning

Blank == [pending |-> FALSE, created |-> FALSE, ran |-> "none",
          complete |-> FALSE, failed |-> FALSE, alerted |-> "none",
          lastRun |-> FALSE, next |-> "none", summary |-> "none",
          observed |-> FALSE, rule |-> FALSE, shown |-> "none", moving |-> FALSE]

-----------------------------------------------------------------------------
(* What users see: setClusterScanStatusDisplay.                            *)

VerdictRaw(summary, strict) == summary

Verdict(summary, strict) ==
    CASE summary = "none"               -> "error"
      [] summary = "failing"            -> "fail"
      [] summary = "warned" /\ strict   -> "fail"
      [] OTHER                          -> "pass"

ShownState(st, strict) ==
    LET open == ~st.failed /\ ~st.complete
    IN CASE st.failed                           -> "error"
         [] st.complete /\ ~st.failed           -> Verdict(st.summary, strict)
         [] open /\ st.ran = "True"             -> "reporting"
         [] open /\ st.ran = "Unknown"          -> "running"
         [] open /\ st.ran = "none"             -> IF st.pending THEN "pending" ELSE "none"

(* The Failed branch and the nil Summary branch return before Transitioning *)
(* is cleared: the value the earlier branches gave it stays.                *)
ShownMoving(st) ==
    /\ st.pending \/ st.ran # "none"
    /\ st.failed \/ ~st.complete \/ st.summary = "none"

Refreshed(st, strict) == [st EXCEPT !.shown = ShownState(st, strict),
                                    !.moving = ShownMoving(st)]

-----------------------------------------------------------------------------
(* Guards the handlers evaluate on their copy.                             *)

(* The scan handler takes a scan that was never run or was reset.          *)
Eligible(st) == ~st.lastRun /\ ~st.created

(* The scheduled-scan handler looks at a finished scan with a next run.    *)
WakesSchedule(st) == st.complete /\ st.lastRun /\ st.next # "none"

(* NextScanAt is still to come.                                            *)
NeverEarly(st) == FALSE
Early(st) == st.next = "later"

(* The metrics handler looks at a finished scan nobody was alerted about.  *)
WakesMetrics(st) == st.complete /\ st.alerted = "Unknown"

-----------------------------------------------------------------------------
(* What the handlers make of their copy.                                   *)

Unconditioned(st) == [st EXCEPT !.pending = FALSE, !.created = FALSE,
                                !.ran = "none", !.complete = FALSE,
                                !.failed = FALSE, !.alerted = "none"]

Pended(st, strict) == Refreshed([st EXCEPT !.pending = TRUE], strict)

Relisted(st) == [Unconditioned(st) EXCEPT !.pending = TRUE]

Rejected(st, strict) == Refreshed([Relisted(st) EXCEPT !.failed = TRUE], strict)

(* Plausible bug: LastRunTimestamp and Created are not recorded.           *)
LaunchedUnrecorded(st, rule, strict) ==
    Refreshed([Relisted(st) EXCEPT !.ran = "Unknown", !.rule = rule], strict)

Launched(st, rule, strict) ==
    Refreshed([Relisted(st) EXCEPT !.created = TRUE, !.ran = "Unknown",
                                   !.lastRun = TRUE, !.rule = rule], strict)

Marked(st, done, strict) ==
    Refreshed([st EXCEPT !.ran = "True", !.failed = @ \/ done # "true"], strict)

(* Complete is set without a refresh of the display.                       *)
Completed(st, summary) == [st EXCEPT !.complete = TRUE, !.summary = summary]

(* Plausible bugs: the display is not refreshed; no next run.              *)
RetiredUnshown(st, cron, strict) ==
    [st EXCEPT !.alerted = IF st.failed THEN @ ELSE "Unknown", !.observed = TRUE,
               !.next = IF cron THEN "later" ELSE @]
RetiredForGood(st, cron, strict) ==
    Refreshed([st EXCEPT !.alerted = IF st.failed THEN @ ELSE "Unknown",
                         !.observed = TRUE], strict)

(* NextScanAt is computed after the display.                               *)
Retired(st, cron, strict) ==
    LET seen == [st EXCEPT !.alerted = IF st.failed THEN @ ELSE "Unknown",
                           !.observed = TRUE]
    IN [Refreshed(seen, strict) EXCEPT !.next = IF cron THEN "later" ELSE @]

(* A new run: the conditions, LastRunTimestamp and NextScanAt are wiped,   *)
(* the summary and the display of the previous run stay. Plausible bugs:   *)
(* the conditions stay, or the name of the alert rule goes too.            *)
RenewedTimes(st) == [st EXCEPT !.lastRun = FALSE, !.next = "none"]
RenewedRuleless(st) == [Blank EXCEPT !.summary = st.summary, !.shown = st.shown,
                                     !.moving = st.moving]

Renewed(st) == [Unconditioned(st) EXCEPT !.lastRun = FALSE, !.next = "none"]

(* Alerted is True only when an alert rule is configured and was created.  *)
AlertUnresolved(st, configured) == st

AlertResolved(st, configured) ==
    [st EXCEPT !.alerted = IF configured /\ st.rule THEN "True" ELSE "False"]

(* The clock passes NextScanAt.                                            *)
Elapsed(st) == [st EXCEPT !.next = IF @ = "later" THEN "past" ELSE @]
=============================================================================
