------------------------ MODULE ScanArtifactsProofs ------------------------
(***************************************************************************)
(* Proofs about ScanArtifacts, for any scans, names, profiles, benchmarks  *)
(* and bounds.                                                             *)
(***************************************************************************)
EXTENDS ScanArtifacts, LeastElement, FiniteSetTheorems, SequenceTheorems

-----------------------------------------------------------------------------
(* Types.                                                                  *)

(* A report is filed at most once per run, so there is a run to number it. *)
Uncounted(s) == IF stage[s] \in {"launched", "over"} THEN 1 ELSE 0
Counted == \A s \in Scans : filed[s] + Uncounted(s) <= made

TypeInv == TypeOK /\ Counted

(* A pass is told a version, and the oldest anyone may still write is one. *)
LEMMA DetectType ==
    ASSUME TypeOK, NEW s \in Scans, Detect(s)
    PROVE  /\ pass'[s].step = "compare" /\ pass'[s].got = version
           /\ pass'[s].raced = FALSE
           /\ pass'[s].least \in Versions /\ pass'[s].least <= version
           /\ \A t \in Told : pass'[s].least <= pass[t].got
           /\ pass'[s].least \in {version} \cup {pass[t].got : t \in Told}
           /\ \A t \in Scans \ {s} : pass'[t] = pass[t]
           /\ pass' \in [Scans -> Pass]
<1> DEFINE told == {version} \cup {pass[t].got : t \in Told}
<1>1. told \in SUBSET Versions /\ told # {} /\ version \in told
  BY DEF TypeOK, Told, Pass
<1>2. Versions \in SUBSET Nat
  BY ArtifactsAssumption DEF Versions
<1>3. Min(told) \in told /\ \A v \in told : Min(told) <= v
  BY <1>1, <1>2, MinOfNats
<1> DEFINE least == Min(told)
<1>4. pass' = [pass EXCEPT ![s] =
          [Idle EXCEPT !.step = "compare", !.got = version, !.least = least]]
  BY DEF Detect
<1>5. least \in told /\ \A v \in told : least <= v
  BY <1>3
<1> HIDE DEF least
<1>6. \A t \in Told : pass[t].got \in told
  OBVIOUS
<1>7. least \in Versions /\ version \in Versions
  BY <1>1, <1>5 DEF TypeOK
<1> HIDE DEF told
<1>8. pass'[s] = [Idle EXCEPT !.step = "compare", !.got = version, !.least = least]
      /\ \A t \in Scans \ {s} : pass'[t] = pass[t]
  BY <1>4 DEF TypeOK
<1>9. pass'[s] \in Pass
  BY <1>7, <1>8, SelectionAssumption DEF Idle, Pass, Steps, Readable, Garbled
<1>10. pass' \in [Scans -> Pass]
  BY <1>4, <1>8, <1>9 DEF TypeOK
<1>11. /\ pass'[s].step = "compare" /\ pass'[s].got = version
       /\ pass'[s].raced = FALSE /\ pass'[s].least = least
  BY <1>8 DEF Idle
<1>12. \A t \in Told : least <= pass[t].got
  BY <1>5, <1>6
<1>13. least <= version
  BY <1>1, <1>5
<1>14. least \in {version} \cup {pass[t].got : t \in Told}
  BY <1>5 DEF told
<1> QED BY <1>7, <1>8, <1>10, <1>11, <1>12, <1>13, <1>14

LEMMA TypeInit == Init => TypeInv
<1> SUFFICES ASSUME Init PROVE TypeInv
  OBVIOUS
<1>1. 1 \in Versions /\ MaxRuns \in Nat /\ MaxVersion \in Nat
  BY ArtifactsAssumption DEF Versions
<1>2. Idle \in Pass
  BY <1>1, SelectionAssumption DEF Idle, Pass, Steps, Readable, Garbled
<1>3. TypeOK
  BY <1>1, <1>2 DEF Init, TypeOK, Stages, Readable
<1>4. Counted
  BY DEF Init, Counted, Uncounted
<1> QED BY <1>3, <1>4 DEF TypeInv

(* The steps of a pass.                                                    *)
LEMMA SelectionType ==
    ASSUME TypeInv, NEW s \in Scans, Selection(s)
    PROVE  TypeInv'
<1> USE DEF TypeInv
<1>1. Idle \in Pass /\ Versions \subseteq Nat /\ Versions \subseteq Readable
  BY ArtifactsAssumption, SelectionAssumption DEF Idle, Pass, Steps, Readable, Garbled, Versions
<1>2. UNCHANGED <<clusterVars, runVars>>
  BY DEF Selection, Detect, Compare, WriteHalf, Write, Choose, Validate, clusterVars,
         runVars
<1>3. Counted'
  BY <1>2 DEF Counted, Uncounted, runVars
<1>4. known' \in Readable /\ pass' \in [Scans -> Pass]
  <2>1. CASE Detect(s)
    BY <2>1, DetectType DEF Detect, TypeOK
  <2>2. CASE Compare(s)
    BY <2>2 DEF Compare, Goes, TypeOK, Pass, Steps
  <2>3. CASE WriteHalf(s)
    <3>1. pass[s].got \in Versions
      BY DEF TypeOK, Pass
    <3>2. 1..pass[s].got \subseteq Versions
      BY <3>1, ArtifactsAssumption DEF Versions
    <3>3. known' \in Readable
      BY <2>3, <3>2 DEF WriteHalf, Torn, Readable, TypeOK
    <3> QED BY <2>3, <3>3 DEF WriteHalf, Goes, TypeOK, Pass, Steps
  <2>4. CASE Write(s)
    BY <2>4 DEF Write, Goes, TypeOK, Pass, Steps, Readable
  <2>5. CASE Choose(s)
    <3>1. CASE ChoiceError(s, known) \/ Choice(s, known) \notin profiles
      BY <1>1, <2>5, <3>1 DEF Choose, Ends, TypeOK
    <3>2. CASE ~ (ChoiceError(s, known) \/ Choice(s, known) \notin profiles)
      <4>1. Choice(s, known) \in STRING
        BY <3>2, SelectionAssumption DEF TypeOK
      <4>2. Raced(s) \in BOOLEAN
        BY DEF Raced, TypeOK, Pass
      <4>3. pass' = [pass EXCEPT ![s].step = "validate", ![s].raced = Raced(s),
                                 ![s].pick = Choice(s, known)] /\ known' = known
        BY <2>5, <3>2 DEF Choose
      <4> DEFINE chosen == [pass[s] EXCEPT !.step = "validate", !.raced = Raced(s),
                                           !.pick = Choice(s, known)]
      <4>4. ASSUME NEW r \in BOOLEAN, NEW p \in STRING
            PROVE  [pass[s] EXCEPT !.step = "validate", !.raced = r, !.pick = p] \in Pass
        <5>1. ASSUME NEW q \in Pass
              PROVE  [q EXCEPT !.step = "validate", !.raced = r, !.pick = p] \in Pass
          BY DEF Pass, Steps
        <5> QED BY <5>1 DEF TypeOK
      <4>5. pass' = [pass EXCEPT ![s] = chosen]
        BY <4>3 DEF TypeOK, Pass
      <4>6. chosen \in Pass
        BY <4>1, <4>2, <4>4
      <4> HIDE DEF chosen
      <4> QED BY <4>3, <4>5, <4>6 DEF TypeOK
    <3> QED BY <3>1, <3>2
  <2>6. CASE Validate(s)
    <3>1. Raced(s) \in BOOLEAN
      BY DEF Raced, TypeOK, Pass
    <3>2. known' = known /\ known \in Readable
      BY <2>6 DEF Validate, TypeOK
    <3>3. CASE Admitted(s)
      BY <2>6, <3>1, <3>2, <3>3 DEF Validate, TypeOK, Pass, Steps
    <3>4. CASE ~ Admitted(s)
      BY <1>1, <2>6, <3>2, <3>4 DEF Validate, Ends, TypeOK
    <3> QED BY <3>3, <3>4
  <2> QED BY <2>1, <2>2, <2>3, <2>4, <2>5, <2>6 DEF Selection
<1> QED BY <1>2, <1>3, <1>4 DEF TypeOK, clusterVars, runVars

(* The steps of a run.                                                     *)
LEMMA RunType ==
    ASSUME TypeInv, NEW s \in Scans, Run(s)
    PROVE  TypeInv'
<1> USE DEF TypeInv, TypeOK
<1>1. Idle \in Pass /\ MaxRuns \in Nat
  BY ArtifactsAssumption, SelectionAssumption DEF Idle, Pass, Steps, Readable, Garbled, Versions
<1>2. CASE Launch(s)
  <2>1. pass' \in [Scans -> Pass]
    BY <1>1, <1>2 DEF Launch, Ends
  <2>2. CASE Free /\ ~RunnerSeen
    <3>1. /\ made' = made + 1 /\ made < MaxRuns /\ claim' = s
          /\ stage' = [stage EXCEPT ![s] = "launched"] /\ filed' = filed
          /\ origin' = [origin EXCEPT ![s] = pass[s]]
      BY <1>2, <2>2 DEF Launch, Moves
    <3>2. stage[s] = "pending"
      BY <1>2 DEF Launch
    <3>3. Counted'
      BY <1>1, <3>1, <3>2 DEF Counted, Uncounted
    <3>4. stage' \in [Scans -> Stages] /\ origin' \in [Scans -> Pass] /\ made' \in 0..MaxRuns
      BY <1>1, <3>1 DEF Stages
    <3> QED BY <1>2, <2>1, <3>1, <3>3, <3>4 DEF Launch, clusterVars
  <2>3. CASE ~ (Free /\ ~RunnerSeen)
    BY <1>2, <2>1, <2>3 DEF Launch, Counted, Uncounted, clusterVars
  <2> QED BY <2>2, <2>3
<1>3. CASE RunEnds(s)
  <2>1. Counted'
    BY <1>3 DEF RunEnds, Moves, Counted, Uncounted
  <2> QED BY <1>3, <2>1 DEF RunEnds, Moves, Stages, clusterVars, choiceVars
<1>4. CASE FileReport(s)
  <2>1. pass' \in [Scans -> Pass]
    BY <1>1, <1>4 DEF FileReport, Ends
  <2>2. CASE s \in outputs
    <3>1. /\ reports' = reports \cup {[of |-> s, born |-> made, profile |-> pass[s].pick]}
          /\ filed' = [filed EXCEPT ![s] = @ + 1] /\ made' = made
          /\ stage' = [stage EXCEPT ![s] = "complete"] /\ stage[s] = "over"
      BY <1>4, <2>2 DEF FileReport, Moves
    <3>2. filed[s] + 1 <= made
      BY <3>1 DEF Counted, Uncounted
    <3>3. made \in 1..MaxRuns
      BY <1>1, <3>2
    <3>4. [of |-> s, born |-> made, profile |-> pass[s].pick] \in Report
      BY <3>3 DEF Report, Pass
    <3>5. reports' \subseteq Report
      BY <3>1, <3>4
    <3>6. filed' \in [Scans -> 0..MaxRuns]
      BY <1>1, <3>1, <3>2, <3>3
    <3>7. stage' \in [Scans -> Stages]
      BY <3>1 DEF Stages
    <3>8. Counted'
      BY <3>1, <3>2 DEF Counted, Uncounted
    <3> QED BY <1>4, <2>1, <3>1, <3>5, <3>6, <3>7, <3>8 DEF FileReport, clusterVars
  <2>3. CASE s \notin outputs
    BY <1>4, <2>1, <2>3 DEF FileReport, Counted, Uncounted, clusterVars
  <2> QED BY <2>2, <2>3
<1>5. CASE Purge(s)
  <2>1. reports' \subseteq reports
    BY <1>5 DEF Purge
  <2>2. Counted'
    BY <1>5 DEF Purge, Moves, Counted, Uncounted
  <2> QED BY <1>5, <2>1, <2>2 DEF Purge, Moves, Stages, clusterVars, choiceVars
<1>6. CASE Sweep(s)
  <2>1. Counted'
    BY <1>6 DEF Sweep, Moves, Counted, Uncounted
  <2>2. outputs' \subseteq Scans /\ defaults' \in BOOLEAN
    BY <1>6 DEF Sweep
  <2> QED BY <1>6, <2>1, <2>2 DEF Sweep, Moves, Stages, choiceVars
<1>7. CASE Release(s)
  <2>1. Counted'
    BY <1>7 DEF Release, Moves, Counted, Uncounted
  <2> QED BY <1>1, <1>7, <2>1 DEF Release, Moves, Stages, clusterVars, choiceVars
<1>8. CASE Rerun(s)
  <2>1. Counted'
    BY <1>8 DEF Rerun, Moves, Counted, Uncounted
  <2> QED BY <1>8, <2>1 DEF Rerun, Moves, Stages, clusterVars, choiceVars
<1> QED BY <1>2, <1>3, <1>4, <1>5, <1>6, <1>7, <1>8 DEF Run

LEMMA TypeStep == TypeInv /\ [Next]_vars => TypeInv'
<1> SUFFICES ASSUME TypeInv, [Next]_vars PROVE TypeInv'
  OBVIOUS
<1>1. CASE \E s \in Scans : Selection(s) \/ Run(s)
  BY <1>1, SelectionType, RunType
<1>2. CASE Upgrade
  <2>1. version' \in Versions
    BY <1>2, ArtifactsAssumption DEF Upgrade, TypeInv, TypeOK, Versions
  <2> QED BY <1>2, <2>1 DEF Upgrade, TypeInv, TypeOK, Counted, Uncounted, choiceVars, runVars
<1>3. CASE RemoveProfile
  BY <1>3 DEF RemoveProfile, TypeInv, TypeOK, Counted, Uncounted, choiceVars, runVars
<1>4. CASE EditSchedule
  BY <1>4, ArtifactsAssumption
     DEF EditSchedule, TypeInv, TypeOK, Counted, Uncounted, choiceVars, runVars
<1>5. CASE UNCHANGED vars
  BY <1>5 DEF vars, TypeInv, TypeOK, Counted, Uncounted, clusterVars, choiceVars, runVars
<1> QED BY <1>1, <1>2, <1>3, <1>4, <1>5 DEF Next

LEMMA TypeAlways == Spec => []TypeInv
<1> QED BY TypeInit, TypeStep, PTL DEF Spec

(* The state has its type; reports carry the number of a run, and no run   *)
(* files two (createClusterScanReport, Complete).                          *)
THEOREM TypeCorrect == Spec => []TypeOK
<1>1. TypeInv => TypeOK
  BY DEF TypeInv
<1> QED BY <1>1, TypeAlways, PTL

-----------------------------------------------------------------------------
(* Outputs and the reports made of them.                                   *)

(* The cleanup of a scan takes its own output, whatever else it takes.     *)
LEMMA OwnOutputSwept ==
    ASSUME NEW s \in Scans
    PROVE  Within(Words[s], OutputName(s))
<1> DEFINE w == Words[s]  start == <<"cisscan", "output", "for">>  o == start \o w
<1>1. w \in Seq(STRING) /\ Len(w) \in Nat
  BY ArtifactsAssumption, LenProperties
<1> DEFINE All == STRING \cup {"cisscan", "output", "for"}
<1>2. w \in Seq(All) /\ start \in Seq(All) /\ Len(start) = 3
  BY <1>1, SeqMonotonic
<1>3. /\ o \in Seq(All) /\ Len(o) = 3 + Len(w)
      /\ \A i \in 1 .. 3 + Len(w) : o[i] = IF i <= 3 THEN start[i] ELSE w[i - 3]
  BY <1>2, ConcatProperties
<1> HIDE DEF o, w, start, All
<1> DEFINE part == SubSeq(o, 4, 3 + Len(w))
<1>4. \A i \in 4 .. 3 + Len(w) : o[i] \in All
  BY <1>1, <1>3, LenProperties
<1>5. /\ part \in Seq(All) /\ Len(part) = IF 4 <= 3 + Len(w) THEN 3 + Len(w) - 4 + 1 ELSE 0
      /\ \A i \in 1 .. 3 + Len(w) - 4 + 1 : part[i] = o[4 + i - 1]
  BY <1>1, <1>4, SubSeqProperties
<1>6. Len(part) = Len(w)
  BY <1>1, <1>5
<1>7. \A i \in 1 .. Len(w) : part[i] = w[i]
  BY <1>1, <1>3, <1>5
<1>8. part = w
  BY <1>2, <1>5, <1>6, <1>7, SeqEqual
<1>9. 3 \in 0 .. Len(o) /\ 3 + Len(w) \in 0 .. Len(o) /\ 3 + 1 = 4
  BY <1>1, <1>3
<1>10. w \in SubSeqs(o)
  BY <1>8, <1>9 DEF SubSeqs
<1> QED BY <1>10 DEF Within, OutputName, o, w, start

(* No report is numbered beyond the runs made.                             *)
BornInv == \A r \in reports : r.born <= made

FiledInv == OutputKept /\ FreshReportKept /\ BornInv

LEMMA FiledInit == Init => FiledInv
<1> QED BY DEF Init, FiledInv, OutputKept, OutputInv, FreshReportKept, BornInv

(* At most one scan has the runner, and the only output is its own.        *)
LEMMA OneRun ==
    ASSUME TypeInv, OutputInv, NEW s \in Scans, stage[s] \notin {"pending", "done"}
    PROVE  /\ claim = s /\ claim # None
           /\ \A t \in Scans \ {s} : stage[t] \in {"pending", "done"}
           /\ outputs \subseteq {s}
<1>1. claim = s /\ \A t \in Scans \ {s} : stage[t] \in {"pending", "done"}
  BY DEF OutputInv
<1>2. claim # None
  BY <1>1, ArtifactsAssumption
<1>3. \A t \in outputs : t \in Scans /\ stage[t] \notin {"pending", "done"}
  BY DEF OutputInv, TypeInv, TypeOK
<1> QED BY <1>1, <1>2, <1>3

LEMMA FiledRun ==
    ASSUME TypeInv, FiledInv, NEW s \in Scans, Run(s)
    PROVE  FiledInv'
<1> USE DEF TypeInv, TypeOK, FiledInv
<1> DEFINE busy(t) == stage[t] \notin {"pending", "done"}
<1>1. OutputInv
  BY DEF OutputKept
<1>2. \A r \in reports : r.born \in Nat /\ r.of \in Scans /\ made \in Nat
  BY ArtifactsAssumption DEF Report
<1>3. CASE Launch(s)
  <2>1. CASE Free /\ ~RunnerSeen
    <3>1. /\ stage' = [stage EXCEPT ![s] = "launched"] /\ claim' = s /\ made' = made + 1
          /\ claim = None /\ UNCHANGED <<outputs, reports>>
      BY <1>3, <2>1 DEF Launch, Moves, Free
    <3>2. \A t \in Scans : ~busy(t)
      BY <1>1, <3>1, OneRun
    <3>3. outputs = {}
      BY <1>1, <3>2 DEF OutputInv
    <3>4. \A t \in Scans \ {s} : stage'[t] = stage[t]
      BY <3>1
    <3>5. stage'[s] = "launched"
      BY <3>1
    <3>6. OutputKept' /\ FreshReportKept'
      BY <3>1, <3>2, <3>3, <3>4, <3>5 DEF OutputKept, OutputInv, FreshReportKept
    <3>7. BornInv'
      BY <1>2, <3>1 DEF BornInv
    <3> QED BY <3>6, <3>7
  <2>2. CASE ~ (Free /\ ~RunnerSeen)
    <3>1. UNCHANGED <<stage, claim, made, outputs, reports>>
      BY <1>3, <2>2 DEF Launch
    <3> QED BY <3>1 DEF OutputKept, OutputInv, FreshReportKept, BornInv
  <2> QED BY <2>1, <2>2
<1>4. CASE ~ Launch(s)
  <2>1. /\ busy(s) \/ Rerun(s) \/ UNCHANGED <<stage, claim, made, outputs, reports>>
        /\ \A t \in Scans \ {s} : stage'[t] = stage[t]
    BY <1>4 DEF Run, RunEnds, FileReport, Purge, Sweep, Release, Rerun, Moves
  <2>2. CASE Rerun(s)
    <3>1. /\ stage' = [stage EXCEPT ![s] = "pending"] /\ stage[s] = "done"
          /\ UNCHANGED <<claim, made, outputs, reports>>
      BY <2>2 DEF Rerun, Moves
    <3>2. stage'[s] = "pending" /\ s \notin outputs
      BY <1>1, <3>1 DEF OutputInv
    <3>3. OutputKept' /\ FreshReportKept'
      BY <2>1, <3>1, <3>2 DEF OutputKept, OutputInv, FreshReportKept
    <3> QED BY <3>1, <3>3 DEF BornInv
  <2>3. CASE UNCHANGED <<stage, claim, made, outputs, reports>>
    BY <2>3 DEF OutputKept, OutputInv, FreshReportKept, BornInv
  <2>4. CASE busy(s) /\ ~ Rerun(s)
    <3>1. /\ claim = s /\ \A t \in Scans \ {s} : stage[t] \in {"pending", "done"}
          /\ outputs \subseteq {s}
      BY <1>1, <2>4, OneRun
    <3>2. CASE RunEnds(s)
      <4>1. /\ UNCHANGED <<claim, made, reports>> /\ s \notin outputs
            /\ \/ stage'[s] = "over" /\ outputs' = outputs \cup {s}
               \/ stage'[s] = "complete" /\ outputs' = outputs
        BY <1>1, <3>2 DEF RunEnds, Moves, OutputInv
      <4>2. OutputKept' /\ FreshReportKept'
        BY <2>1, <3>1, <4>1 DEF OutputKept, OutputInv, FreshReportKept
      <4> QED BY <4>1, <4>2 DEF BornInv
    <3>3. CASE FileReport(s)
      <4>1. CASE s \in outputs
        <5>1. /\ reports' = reports \cup {[of |-> s, born |-> made, profile |-> pass[s].pick]}
              /\ stage'[s] = "complete" /\ UNCHANGED <<claim, made, outputs>>
          BY <3>3, <4>1 DEF FileReport, Moves
        <5>2. OutputKept'
          BY <2>1, <3>1, <5>1 DEF OutputKept, OutputInv
        <5>3. FreshReportKept'
          <6>1. \E r \in reports' : r.of = s /\ r.born = made'
            <7> DEFINE new == [of |-> s, born |-> made, profile |-> pass[s].pick]
            <7>1. new \in reports' /\ made' = made
              BY <5>1
            <7>2. new.of = s /\ new.born = made
              OBVIOUS
            <7> QED BY <7>1, <7>2
          <6> QED BY <2>1, <3>1, <6>1 DEF FreshReportKept
        <5>4. BornInv'
          BY <1>2, <5>1 DEF BornInv
        <5> QED BY <5>2, <5>3, <5>4
      <4>2. CASE s \notin outputs
        BY <3>3, <4>2 DEF FileReport, OutputKept, OutputInv, FreshReportKept, BornInv
      <4> QED BY <4>1, <4>2
    <3>4. CASE Purge(s)
      <4>1. /\ stage'[s] = "purged" /\ stage[s] = "complete" /\ UNCHANGED <<claim, made, outputs>>
            /\ reports' \subseteq reports /\ reports \ Purged(s) \subseteq reports'
        BY <3>4 DEF Purge, Moves
      <4>2. OutputKept'
        BY <2>1, <3>1, <4>1 DEF OutputKept, OutputInv
      <4>3. ASSUME s \in outputs
            PROVE  \E r \in reports' : r.of = s /\ r.born = made
        <5>1. PICK r \in reports : r.of = s /\ r.born = made
          BY <4>1, <4>3 DEF FreshReportKept
        <5>2. After(r, Matching(s)) = {}
          BY <1>2, <5>1 DEF After, Matching, BornInv
        <5>3. Cardinality(After(r, Matching(s))) = 0
          BY <5>2, FS_EmptySet
        <5>4. Retained(s) \in Nat /\ Retained(s) > 0
          BY ArtifactsAssumption DEF Retained, DefaultRetention
        <5>5. r \notin Purged(s)
          BY <5>3, <5>4 DEF Purged
        <5> QED BY <4>1, <5>1, <5>5
      <4>4. FreshReportKept'
        BY <2>1, <3>1, <4>1, <4>3 DEF FreshReportKept
      <4> QED BY <4>1, <4>2, <4>4 DEF BornInv
    <3>5. CASE Sweep(s)
      <4>1. /\ stage'[s] = "swept" /\ UNCHANGED <<claim, made, reports>>
            /\ outputs' = outputs \ Swept(s)
        BY <3>5 DEF Sweep, Moves
      <4>2. s \in outputs => s \in Swept(s)
        BY OwnOutputSwept DEF Swept
      <4>3. outputs' = {}
        BY <3>1, <4>1, <4>2
      <4>4. OutputKept' /\ FreshReportKept'
        BY <2>1, <3>1, <4>1, <4>3 DEF OutputKept, OutputInv, FreshReportKept
      <4> QED BY <4>1, <4>4 DEF BornInv
    <3>6. CASE Release(s)
      <4>1. /\ stage'[s] = "done" /\ stage[s] = "swept" /\ claim' = None
            /\ UNCHANGED <<made, outputs, reports>>
        BY <3>6 DEF Release, Moves
      <4>2. outputs = {}
        BY <1>1, <3>1, <4>1 DEF OutputInv
      <4>3. OutputKept' /\ FreshReportKept'
        BY <2>1, <3>1, <4>1, <4>2 DEF OutputKept, OutputInv, FreshReportKept
      <4> QED BY <4>1, <4>3 DEF BornInv
    <3> QED BY <1>4, <2>4, <3>2, <3>3, <3>4, <3>5, <3>6 DEF Run
  <2> QED BY <2>1, <2>2, <2>3, <2>4
<1> QED BY <1>3, <1>4

LEMMA FiledStep == TypeInv /\ FiledInv /\ [Next]_vars => FiledInv'
<1> SUFFICES ASSUME TypeInv, FiledInv, [Next]_vars PROVE FiledInv'
  OBVIOUS
<1>1. CASE \E s \in Scans : Run(s)
  BY <1>1, FiledRun
<1>2. CASE (\E s \in Scans : Selection(s)) \/ Upgrade \/ RemoveProfile \/ EditSchedule
         \/ UNCHANGED vars
  <2>1. UNCHANGED <<outputs, reports, stage, claim, made>>
    BY <1>2 DEF Selection, Detect, Compare, WriteHalf, Write, Choose, Validate, Upgrade,
           RemoveProfile, EditSchedule, vars, runVars
  <2> QED BY <2>1 DEF FiledInv, OutputKept, OutputInv, FreshReportKept, BornInv
<1> QED BY <1>1, <1>2 DEF Next

LEMMA FiledAlways == Spec => []FiledInv
<1> QED BY TypeAlways, FiledInit, FiledStep, PTL DEF Spec

(* The cleanup of a scan by the words of its name never takes an output    *)
(* that is still to be read, whatever the scans are called (ensureCleanup). *)
THEOREM OutputsKept == Spec => []OutputKept
<1>1. FiledInv => OutputKept
  BY DEF FiledInv
<1> QED BY <1>1, FiledAlways, PTL

(* Nor does a retention take the report of the run that is being retired   *)
(* (purgeOldClusterScanReports).                                           *)
THEOREM FreshReportsKept == Spec => []FreshReportKept
<1>1. FiledInv => FreshReportKept
  BY DEF FiledInv
<1> QED BY <1>1, FiledAlways, PTL
=============================================================================
