---------------------------- MODULE ScanArtifacts ----------------------------
(***************************************************************************)
(* What the runs of scans leave in the cluster, told apart by name only:   *)
(* output ConfigMaps, reports, and the operator's own ConfigMap of default *)
(* profiles; and the profile each run and each report is made for, chosen  *)
(* by passes that share the operator's KubernetesVersion without a lock    *)
(* while the cluster is upgraded.                                          *)
(*                                                                         *)
(* The machinery of a run (Job, Pod, caches, conflicts, restarts) is that  *)
(* of ScanController; here a run is a stage of its scan. A name is the     *)
(* sequence of its words, joined by dashes in the code.                    *)
(***************************************************************************)
EXTENDS ProfileSelection, SequencesExt

CONSTANTS
    Scans,          \* ClusterScans, all there from the start
    Scheduled,      \* the ones with a CronSchedule
    Words,          \* name of each scan
    ProfileNamed,   \* Spec.ScanProfileName of each, or Unnamed
    ProfileWords,   \* the words of each profile name
    RetentionCount, \* Spec.ScheduledScanConfig.RetentionCount of each
    MaxWords,       \* words of scan and profile that a report's name has room for
    MaxVersion,     \* bound on the upgrades: the cluster's versions are 1..MaxVersion
    MaxRuns,        \* bound on the runs of all scans together
    Removable,      \* profiles a user may delete
    Editable,       \* scheduled scans whose CronSchedule a user may edit
    None            \* the empty currentScanName

DefaultRetention == 3
DefaultsName == <<"default", "clusterscanprofiles">>

ASSUME ArtifactsAssumption ==
    /\ Scheduled \subseteq Scans /\ Editable \subseteq Scheduled
    /\ None \notin Scans
    /\ Words \in [Scans -> Seq(STRING) \ {<<>>}]
    /\ ProfileNamed \in [Scans -> STRING]
    /\ RetentionCount \in [Scans -> Nat]
    /\ MaxWords \in Nat /\ MaxRuns \in Nat
    /\ MaxVersion \in Nat \ {0}

VARIABLES
    (* The cluster. *)
    version,    \* its Kubernetes version
    profiles,   \* the ClusterScanProfiles that exist
    unparsable, \* the scheduled scans whose CronSchedule does not parse
    defaults,   \* whether the ConfigMap of the default profiles exists
    outputs,    \* the scans whose output ConfigMap exists
    reports,    \* the ClusterScanReports
    stage,      \* how far the run of each scan is
    (* The operator. *)
    known,      \* KubernetesVersion of the Controller
    claim,      \* currentScanName
    pass,       \* the choice of a profile in progress for each scan
    (* History, read by no action. *)
    made,       \* runs so far
    filed,      \* reports created for each scan
    origin      \* the pass that launched the run of each scan

clusterVars == <<version, profiles, unparsable, defaults>>
choiceVars  == <<known, pass>>
runVars     == <<outputs, reports, stage, claim, made, filed, origin>>
vars == <<clusterVars, choiceVars, runVars>>

-----------------------------------------------------------------------------
Stages == {"pending", "launched", "over", "complete", "purged", "swept", "done"}
Steps  == {"idle", "compare", "write", "tear", "choose", "validate", "ready"}
Versions == 1..MaxVersion
Readable == {Garbled} \cup Versions
Report == [of : Scans, born : 1..MaxRuns, profile : STRING]

(* A pass: the version it was told, the profile it chose, and, as history, *)
(* the version that was validated for, whether it read a version another   *)
(* pass was in the middle of writing, and the oldest version a pass in     *)
(* progress at its start may still write.                                  *)
Pass == [step : Steps, got : Versions, pick : STRING, used : Readable,
         raced : BOOLEAN, least : Versions]
Idle == [step |-> "idle", got |-> 1, pick |-> Unnamed, used |-> Garbled,
         raced |-> FALSE, least |-> 1]

TypeOK ==
    /\ version \in Versions
    /\ profiles \subseteq DOMAIN BenchmarkOf
    /\ unparsable \subseteq Scheduled
    /\ defaults \in BOOLEAN
    /\ outputs \subseteq Scans
    /\ reports \subseteq Report
    /\ stage \in [Scans -> Stages]
    /\ known \in Readable
    /\ claim \in Scans \cup {None}
    /\ pass \in [Scans -> Pass]
    /\ made \in 0..MaxRuns
    /\ filed \in [Scans -> 0..MaxRuns]
    /\ origin \in [Scans -> Pass]

Init ==
    /\ version = 1 /\ profiles = DOMAIN BenchmarkOf /\ unparsable = {} /\ defaults = TRUE
    /\ outputs = {} /\ reports = {} /\ stage = [s \in Scans |-> "pending"]
    /\ known = 1 /\ claim = None
    /\ pass = [s \in Scans |-> Idle]
    /\ made = 0 /\ filed = [s \in Scans |-> 0]
    /\ origin = [s \in Scans |-> Idle]

-----------------------------------------------------------------------------
(* Names.                                                                  *)

(* The GenerateName of a report: scan and profile, cut where SafeConcatName *)
(* and the API server cut it. Its own cut leaves no room for a long scan.  *)
ReportName(s) ==
    LET whole == Words[s] \o ProfileWords[ProfileNamed[s]]
    IN SubSeq(whole, 1, Min({MaxWords, Len(whole)}))

OutputName(s) == <<"cisscan", "output", "for">> \o Words[s]

(* strings.Contains, word by word.                                         *)
Within(part, name) == part \in SubSeqs(name)

-----------------------------------------------------------------------------
(* A pass over a scan that needs its profile: one that would launch it, or *)
(* one that would file the report of its run. Plausible bug: the latter    *)
(* waits for the runner, too.                                              *)

Running(s) == stage[s] \in {"launched", "over", "complete"}
RunnerSeen == \E t \in Scans : Running(t)
SelectsAlone(s) == stage[s] \in {"pending", "over"} /\ ~RunnerSeen
Selects(s) == (stage[s] = "pending" /\ ~RunnerSeen) \/ stage[s] = "over"

At(s, step) == pass[s].step = step
Goes(s, step) == pass' = [pass EXCEPT ![s].step = step]
Ends(s) == pass' = [pass EXCEPT ![s] = Idle]

(* The version is asked of the API server.                                 *)
Told == {t \in Scans : pass[t].step \in {"compare", "write", "tear"}}

Detect(s) ==
    /\ Selects(s)
    /\ At(s, "idle")
    /\ pass' = [pass EXCEPT ![s] =
          [Idle EXCEPT !.step = "compare", !.got = version,
                       !.least = Min({version} \cup {pass[t].got : t \in Told})]]
    /\ UNCHANGED <<clusterVars, runVars, known>>

(* It is compared with the one the operator has. Plausible bug: only the   *)
(* version detected at the start is ever used.                             *)
SameAlways(mine, theirs) == TRUE
Same(mine, theirs) == mine = theirs

Compare(s) ==
    /\ At(s, "compare")
    /\ Goes(s, IF Same(pass[s].got, known) THEN "choose" ELSE "write")
    /\ UNCHANGED <<clusterVars, runVars, known>>

(* The assignment takes no lock, and a string is not written in one piece: *)
(* in between, readers find the old version, the new one, the new one cut  *)
(* short, which is an earlier version, or what is no version at all.       *)
Torn(old, new) == {Garbled, old} \cup 1..new

WriteHalf(s) ==
    /\ At(s, "write")
    /\ known' \in Torn(known, pass[s].got)
    /\ Goes(s, "tear")
    /\ UNCHANGED <<clusterVars, runVars>>

Write(s) ==
    /\ At(s, "tear")
    /\ known' = pass[s].got
    /\ Goes(s, "choose")
    /\ UNCHANGED <<clusterVars, runVars>>

(* The profile the scan names, or the default one; it must exist. Plausible *)
(* bug: the name is ignored.                                               *)
DefaultAlways(s, read) == DefaultProfile(read)
Choice(s, read) ==
    IF ProfileNamed[s] # Unnamed THEN ProfileNamed[s] ELSE DefaultProfile(read)

ChoiceError(s, read) ==
    ProfileNamed[s] = Unnamed /\ (~defaults \/ DefaultError(read))

Raced(s) == pass[s].raced \/ \E t \in Scans : At(t, "tear")

Choose(s) ==
    /\ At(s, "choose")
    /\ IF ChoiceError(s, known) \/ Choice(s, known) \notin profiles
       THEN Ends(s)
       ELSE pass' = [pass EXCEPT ![s].step = "validate", ![s].raced = Raced(s),
                                 ![s].pick = Choice(s, known)]
    /\ UNCHANGED <<clusterVars, runVars, known>>

(* A profile or a schedule that does not validate fails a scan to be       *)
(* launched; the collection of a run asks for no schedule and is retried.  *)
Admitted(s) == /\ Validates(pass[s].pick, known)
               /\ stage[s] = "pending" => s \notin unparsable

Validate(s) ==
    /\ At(s, "validate")
    /\ IF Admitted(s)
       THEN pass' = [pass EXCEPT ![s].step = "ready", ![s].raced = Raced(s),
                                 ![s].used = known]
       ELSE Ends(s)
    /\ UNCHANGED <<clusterVars, runVars, known>>

-----------------------------------------------------------------------------
(* The run.                                                                *)

Moves(s, next) == stage' = [stage EXCEPT ![s] = next]

(* Plausible bug: the runner is taken whoever has it.                      *)
FreeAlways == TRUE
Free == claim = None

(* Under the mutex: the runner is free, or the pass is done again.         *)
Launch(s) ==
    /\ At(s, "ready") /\ stage[s] = "pending"
    /\ Ends(s)
    /\ IF Free /\ ~RunnerSeen
       THEN /\ made < MaxRuns /\ made' = made + 1
            /\ Moves(s, "launched")
            /\ claim' = s
            /\ origin' = [origin EXCEPT ![s] = pass[s]]
       ELSE UNCHANGED <<stage, claim, made, origin>>
    /\ UNCHANGED <<clusterVars, known, outputs, reports, filed>>

(* The runner ends well, with an output, or in error.                      *)
RunEnds(s) ==
    /\ stage[s] = "launched"
    /\ \/ Moves(s, "over") /\ outputs' = outputs \cup {s}
       \/ Moves(s, "complete") /\ UNCHANGED outputs
    /\ UNCHANGED <<clusterVars, choiceVars, reports, claim, made, filed, origin>>

(* getScanResults and the Create of the report, then Complete. Without     *)
(* output, retry. Plausible bug: Complete is not saved.                    *)
FileReportOnly(s) ==
    /\ At(s, "ready") /\ stage[s] = "over"
    /\ Ends(s)
    /\ reports' = reports \cup {[of |-> s, born |-> made, profile |-> pass[s].pick]}
    /\ filed' = [filed EXCEPT ![s] = @ + 1]
    /\ UNCHANGED <<clusterVars, known, outputs, stage, claim, made, origin>>

FileReport(s) ==
    /\ At(s, "ready") /\ stage[s] = "over"
    /\ Ends(s)
    /\ IF s \in outputs
       THEN /\ reports' = reports \cup {[of |-> s, born |-> made, profile |-> pass[s].pick]}
            /\ filed' = [filed EXCEPT ![s] = @ + 1]
            /\ Moves(s, "complete")
       ELSE UNCHANGED <<reports, filed, stage>>
    /\ UNCHANGED <<clusterVars, known, outputs, claim, made, origin>>

(* The retirement starts with the next run's time, which takes a schedule  *)
(* that parses, or it is retried. Then purgeOldClusterScanReports: of the  *)
(* reports whose names start like those of the scan, the newest ones stay. *)
(* Plausible bugs: the oldest ones stay, or one too many.                  *)
Retained(s) == IF RetentionCount[s] = 0 THEN DefaultRetention ELSE RetentionCount[s]
Matching(s) == {r \in reports : IsPrefix(Words[s], ReportName(r.of))}

Before(r, among) == {q \in among : q.born < r.born}
After(r, among) == {q \in among : q.born > r.born}

OldestStay(s) ==
    {r \in Matching(s) : Cardinality(Before(r, Matching(s))) >= Retained(s)}
OneMoreStays(s) ==
    {r \in Matching(s) : Cardinality(After(r, Matching(s))) > Retained(s)}
Purged(s) ==
    {r \in Matching(s) : Cardinality(After(r, Matching(s))) >= Retained(s)}

Purge(s) ==
    /\ stage[s] = "complete"
    /\ s \notin unparsable
    /\ reports' = IF s \in Scheduled THEN reports \ Purged(s) ELSE reports
    /\ Moves(s, "purged")
    /\ UNCHANGED <<clusterVars, choiceVars, outputs, claim, made, filed, origin>>

(* ensureCleanup: every ConfigMap of the namespace with the scan's name in *)
(* its own.                                                                *)
Swept(s) == {t \in outputs : Within(Words[s], OutputName(t))}

Sweep(s) ==
    /\ stage[s] = "purged"
    /\ outputs' = outputs \ Swept(s)
    /\ defaults' = (defaults /\ ~Within(Words[s], DefaultsName))
    /\ Moves(s, "swept")
    /\ UNCHANGED <<version, profiles, unparsable, choiceVars, reports, claim, made,
                   filed, origin>>

Release(s) ==
    /\ stage[s] = "swept"
    /\ claim' = None
    /\ Moves(s, "done")
    /\ origin' = [origin EXCEPT ![s] = Idle]
    /\ UNCHANGED <<clusterVars, choiceVars, outputs, reports, made, filed>>

(* The next run of a scheduled scan is due.                                *)
Rerun(s) ==
    /\ s \in Scheduled
    /\ stage[s] = "done"
    /\ Moves(s, "pending")
    /\ UNCHANGED <<clusterVars, choiceVars, outputs, reports, claim, made, filed,
                   origin>>

-----------------------------------------------------------------------------
(* The cluster and its users.                                              *)

Upgrade ==
    /\ version < MaxVersion
    /\ version' = version + 1
    /\ UNCHANGED <<profiles, unparsable, defaults, choiceVars, runVars>>

RemoveProfile ==
    /\ \E p \in profiles \cap Removable : profiles' = profiles \ {p}
    /\ UNCHANGED <<version, unparsable, defaults, choiceVars, runVars>>

(* A schedule is edited to one that does not parse, or mended.             *)
EditSchedule ==
    /\ \E s \in Editable : unparsable' = IF s \in unparsable THEN unparsable \ {s}
                                         ELSE unparsable \cup {s}
    /\ UNCHANGED <<version, profiles, defaults, choiceVars, runVars>>

-----------------------------------------------------------------------------
Selection(s) == \/ Detect(s) \/ Compare(s) \/ WriteHalf(s) \/ Write(s)
                \/ Choose(s) \/ Validate(s)

Run(s) == \/ Launch(s) \/ RunEnds(s) \/ FileReport(s)
          \/ Purge(s) \/ Sweep(s) \/ Release(s) \/ Rerun(s)

Next == (\E s \in Scans : Selection(s) \/ Run(s)) \/ Upgrade \/ RemoveProfile
        \/ EditSchedule

Spec == Init /\ [][Next]_vars

(* The steps of a pass and of a run go on by themselves; nothing is assumed *)
(* of upgrades and users.                                                  *)
Fairness == \A s \in Scans :
    /\ WF_vars(Selection(s))
    /\ WF_vars(Launch(s)) /\ WF_vars(RunEnds(s)) /\ WF_vars(FileReport(s))
    /\ WF_vars(Purge(s)) /\ WF_vars(Sweep(s)) /\ WF_vars(Release(s))

FairSpec == Spec /\ Fairness

-----------------------------------------------------------------------------
(* Properties.                                                             *)

(* A run in progress has the runner to itself, and the only output there   *)
(* is its own; so the cleanup of a scan, which takes every ConfigMap that  *)
(* has the scan's name in its own, never takes an output that is still to  *)
(* be read (ensureCleanup, getScanResults).                                *)
OutputInv ==
    /\ \A s \in Scans : stage[s] \notin {"pending", "done"} => claim = s
    /\ \A s \in outputs : stage[s] \in {"over", "complete", "purged"}

OutputKept ==
    /\ OutputInv
    /\ \A s \in Scans : stage[s] = "over" => s \in outputs

(* The report of a run is still there when the runner is given back: no    *)
(* retention of this scan or another takes it before (purgeOldClusterScanReports). *)
FreshReportKept ==
    \A s \in Scans :
        /\ stage[s] \in {"complete", "purged", "swept"} /\ s \in outputs
        => \E r \in reports : r.of = s /\ r.born = made

(* A scheduled scan that rests has the newest of its own reports, as many  *)
(* as its RetentionCount says ("Number of past scans to keep"), while an   *)
(* on-demand scan has all of its own.                                      *)
Own(s) == {r \in reports : r.of = s}
Due(s) == IF s \in Scheduled THEN Min({filed[s], Retained(s)}) ELSE filed[s]

RetentionKept ==
    \A s \in Scans : stage[s] \in {"pending", "done"} => Cardinality(Own(s)) = Due(s)

(* A profile goes on to a launch or a report only if it fits a version the *)
(* cluster had no earlier than the oldest pass then in progress, whichever *)
(* pass wrote KubernetesVersion last; only a read in the middle of a write *)
(* can be off (refreshClusterKubernetesVersion, validateClusterScanProfile). *)
ValidatedRecently ==
    \A s \in Scans : At(s, "ready") =>
        /\ Validates(pass[s].pick, pass[s].used)
        /\ pass[s].raced \/ pass[s].used \in pass[s].least..version

(* A report names the benchmark its run was made with, unless the scan     *)
(* leaves the choice to the operator and the cluster was upgraded in       *)
(* between, or one of the two choices read a version in the middle of a    *)
(* write (createClusterScanReport chooses again).                          *)
ReportOfItsRun ==
    [][ \A s \in Scans : \A r \in reports' \ reports :
            r.of = s =>
            \/ BenchmarkOf[r.profile] = BenchmarkOf[origin[s].pick]
            \/ /\ ProfileNamed[s] = Unnamed
               /\ origin[s].least < version \/ origin[s].raced \/ pass[s].raced ]_vars

(* A run that was launched is retired, and gives the runner back.          *)
RunRetired == \A s \in Scans : stage[s] = "launched" ~> stage[s] = "done"

(* The only thing that can keep it is that the profile the scan would get  *)
(* now is gone or no longer fits, or that its schedule was edited to one   *)
(* that does not parse (createClusterScanReport, rescheduleScan).          *)
Stranded(s) ==
    \/ s \in unparsable
    \/ ProfileNamed[s] = Unnamed /\ ~defaults
    \/ Choice(s, version) \notin profiles
    \/ ~Validates(Choice(s, version), version)

RetiredOrStranded ==
    \A s \in Scans : stage[s] = "launched" ~> stage[s] = "done" \/ Stranded(s)
=============================================================================
