------------------------ MODULE ScanRetentionProofs ------------------------
(***************************************************************************)
(* Proofs about ScanArtifacts, continued: if no report can be taken for    *)
(* one of another scan, the retention of each scan keeps what it should.   *)
(***************************************************************************)
EXTENDS ScanArtifactsProofs

(* The names of a scheduled scan's reports start with its words, and those *)
(* of no other scan's do; a name cut short, or one that extends another,   *)
(* breaks it.                                                              *)
NamesApart ==
    \A s \in Scheduled, t \in Scans : IsPrefix(Words[s], ReportName(t)) <=> t = s

(* The reports of a scan carry different numbers, and those of a run in    *)
(* progress is still to come.                                              *)
NumberedInv ==
    /\ IsFiniteSet(reports)
    /\ \A r, q \in reports : r.born = q.born => r = q
    /\ \A s \in Scans : stage[s] \in {"launched", "over"} =>
          \A r \in reports : r.born < made

(* One report too many is there at most between its filing and the purge.  *)
Overdue(s) ==
    /\ stage[s] = "complete" /\ s \in Scheduled
    /\ filed[s] > Retained(s) /\ Cardinality(Own(s)) = Retained(s) + 1

RetentionInv ==
    /\ NumberedInv
    /\ \A s \in Scans : Overdue(s) \/ Cardinality(Own(s)) = Due(s)

LEMMA RetainedType ==
    ASSUME NEW s \in Scans
    PROVE  Retained(s) \in Nat /\ Retained(s) > 0
<1> QED BY ArtifactsAssumption DEF Retained, DefaultRetention

LEMMA DueType ==
    ASSUME TypeInv, NEW s \in Scans
    PROVE  /\ Due(s) = IF s \in Scheduled /\ filed[s] > Retained(s)
                       THEN Retained(s) ELSE filed[s]
           /\ filed[s] \in Nat
<1>1. filed[s] \in Nat /\ Retained(s) \in Nat
  BY ArtifactsAssumption, RetainedType DEF TypeInv, TypeOK
<1>2. /\ Min({filed[s], Retained(s)}) \in {filed[s], Retained(s)}
      /\ \A x \in {filed[s], Retained(s)} : Min({filed[s], Retained(s)}) <= x
  <2>1. {filed[s], Retained(s)} \in SUBSET Nat /\ {filed[s], Retained(s)} # {}
    BY <1>1
  <2> QED BY <2>1, MinOfNats
<1> QED BY <1>1, <1>2 DEF Due

LEMMA RetentionInit == Init => RetentionInv
<1> SUFFICES ASSUME Init PROVE RetentionInv
  OBVIOUS
<1>1. reports = {} /\ \A s \in Scans : filed[s] = 0 /\ Own(s) = {}
  BY DEF Init, Own
<1>2. TypeInv
  BY TypeInit
<1>3. \A s \in Scans : Due(s) = 0
  <2> SUFFICES ASSUME NEW s \in Scans PROVE Due(s) = 0
    OBVIOUS
  <2> QED BY <1>1, <1>2, DueType, RetainedType
<1>4. IsFiniteSet(reports) /\ \A s \in Scans : Cardinality(Own(s)) = 0
  BY <1>1, FS_EmptySet
<1> QED BY <1>1, <1>3, <1>4 DEF RetentionInv, NumberedInv

(* The newest of a set of numbered reports: with at most as many as are to *)
(* stay none goes; with one more the oldest goes.                          *)
LEMMA NoneGoes ==
    ASSUME NEW among, IsFiniteSet(among), NEW n \in Nat, Cardinality(among) <= n, n > 0,
           NEW r \in among, r.born \in Nat
    PROVE  Cardinality(After(r, among)) < n
<1>1. After(r, among) \subseteq among \ {r}
  BY DEF After
<1>2. /\ IsFiniteSet(among \ {r}) /\ Cardinality(among \ {r}) = Cardinality(among) - 1
  BY FS_RemoveElement
<1>3. Cardinality(After(r, among)) <= Cardinality(among \ {r})
  BY <1>1, <1>2, FS_Subset
<1>4. Cardinality(among) \in Nat /\ Cardinality(After(r, among)) \in Nat
  BY <1>1, <1>2, FS_CardinalityType, FS_Subset
<1> QED BY <1>2, <1>3, <1>4

LEMMA OldestGoes ==
    ASSUME NEW among, IsFiniteSet(among), NEW n \in Nat, n > 0, Cardinality(among) = n + 1,
           \A r \in among : r.born \in Nat,
           \A r, q \in among : r.born = q.born => r = q
    PROVE  \E o \in among : {r \in among : Cardinality(After(r, among)) >= n} = {o}
<1> DEFINE born == {r.born : r \in among}
<1>1. among # {}
  BY FS_EmptySet
<1>2. born \in SUBSET Nat /\ born # {}
  BY <1>1
<1>3. Min(born) \in born /\ \A b \in born : Min(born) <= b
  BY <1>2, MinOfNats
<1>4. PICK o \in among : \A r \in among : o.born <= r.born
  BY <1>3
<1>5. \A r \in among \ {o} : o.born < r.born
  BY <1>4
<1>6. After(o, among) = among \ {o}
  BY <1>5 DEF After
<1>7. IsFiniteSet(among \ {o}) /\ Cardinality(among \ {o}) = n
  BY FS_RemoveElement
<1>8. ASSUME NEW r \in among \ {o} PROVE ~ (Cardinality(After(r, among)) >= n)
  <2>1. After(r, among) = After(r, among \ {o})
    BY <1>5 DEF After
  <2>2. Cardinality(After(r, among \ {o})) < n
    BY <1>7, NoneGoes
  <2>3. IsFiniteSet(After(r, among \ {o}))
    <3>1. After(r, among \ {o}) \in SUBSET (among \ {o})
      BY DEF After
    <3> QED BY <1>7, <3>1, FS_Subset
  <2> QED BY <2>1, <2>2, <2>3, FS_CardinalityType
<1>9. Cardinality(After(o, among)) >= n
  BY <1>6, <1>7
<1> QED BY <1>8, <1>9

-----------------------------------------------------------------------------
(* Where no report comes or goes, only the end of a retirement matters.    *)
LEMMA RetentionUntouched ==
    ASSUME RetentionInv, UNCHANGED <<reports, filed>>,
           \A t \in Scans : stage[t] = "complete" => stage'[t] = "complete"
    PROVE  \A t \in Scans : Overdue(t)' \/ Cardinality(Own(t))' = Due(t)'
<1>1. \A t \in Scans : Own(t)' = Own(t) /\ Due(t)' = Due(t) /\ Retained(t)' = Retained(t)
  BY DEF Own, Due, Retained
<1> QED BY <1>1 DEF RetentionInv, Overdue

(* The report of a run is one more of its scan.                            *)
LEMMA RetentionFiled ==
    ASSUME TypeInv, FiledInv, RetentionInv, NEW s \in Scans, FileReport(s), s \in outputs
    PROVE  RetentionInv'
<1> DEFINE new == [of |-> s, born |-> made, profile |-> pass[s].pick]
<1>1. /\ reports' = reports \cup {new} /\ filed' = [filed EXCEPT ![s] = @ + 1]
      /\ stage[s] = "over" /\ stage' = [stage EXCEPT ![s] = "complete"] /\ made' = made
  BY DEF FileReport, Moves
<1>2. /\ filed \in [Scans -> Nat] /\ made \in Nat /\ stage \in [Scans -> Stages]
      /\ reports \subseteq Report
  BY ArtifactsAssumption DEF TypeInv, TypeOK
<1>3. \A r \in reports : r.born \in Nat /\ r.born < made
  BY <1>1, <1>2 DEF RetentionInv, NumberedInv, Report
<1>4. new.of = s /\ new.born = made
  OBVIOUS
<1> HIDE DEF new
<1>5. new \notin reports
  BY <1>2, <1>3, <1>4
<1>6. IsFiniteSet(reports')
  BY <1>1, FS_AddElement DEF RetentionInv, NumberedInv
<1>7. \A t \in Scans \ {s} : stage'[t] \notin {"launched", "over"}
  BY <1>1, <1>2, OneRun DEF FiledInv, OutputKept
<1>8. NumberedInv'
  BY <1>1, <1>2, <1>3, <1>4, <1>6, <1>7 DEF RetentionInv, NumberedInv
<1>9. ASSUME NEW t \in Scans \ {s} PROVE Overdue(t)' \/ Cardinality(Own(t))' = Due(t)'
  <2>1. Own(t)' = Own(t) /\ filed'[t] = filed[t] /\ stage'[t] = stage[t]
    BY <1>1, <1>2, <1>4 DEF Own
  <2>2. Due(t)' = Due(t) /\ Retained(t)' = Retained(t)
    BY <2>1 DEF Due, Retained
  <2> QED BY <2>1, <2>2 DEF RetentionInv, Overdue
<1>10. Overdue(s)' \/ Cardinality(Own(s))' = Due(s)'
  <2>1. Own(s)' = Own(s) \cup {new} /\ new \notin Own(s)
    BY <1>1, <1>4, <1>5 DEF Own
  <2>2. IsFiniteSet(Own(s))
    <3>1. Own(s) \in SUBSET reports
      BY DEF Own
    <3> QED BY <3>1, FS_Subset DEF RetentionInv, NumberedInv
  <2>3. Cardinality(Own(s))' = Cardinality(Own(s)) + 1
    BY <2>1, <2>2, FS_AddElement
  <2>4. Cardinality(Own(s)) = Due(s)
    BY <1>1 DEF RetentionInv, Overdue
  <2>5. filed'[s] = filed[s] + 1 /\ stage'[s] = "complete"
    BY <1>1, <1>2
  <2>6. TypeInv'
    BY RunType DEF Run
  <2>7. /\ Due(s) = IF s \in Scheduled /\ filed[s] > Retained(s)
                    THEN Retained(s) ELSE filed[s]
        /\ Due(s)' = IF s \in Scheduled /\ filed'[s] > Retained(s)
                     THEN Retained(s) ELSE filed'[s]
        /\ filed[s] \in Nat /\ Retained(s) \in Nat /\ Retained(s)' = Retained(s)
    <3>1. Due(s) = IF s \in Scheduled /\ filed[s] > Retained(s)
                   THEN Retained(s) ELSE filed[s]
      BY DueType
    <3>2. (TypeInv => Due(s) = IF s \in Scheduled /\ filed[s] > Retained(s)
                               THEN Retained(s) ELSE filed[s])'
      BY DueType, PTL
    <3>3. Retained(s)' = Retained(s)
      BY DEF Retained
    <3> QED BY <1>2, <2>6, <3>1, <3>2, <3>3, RetainedType
  <2> QED BY <2>3, <2>4, <2>5, <2>7 DEF Overdue
<1> QED BY <1>8, <1>9, <1>10 DEF RetentionInv

(* The purge takes the oldest report if there is one too many, and no      *)
(* report of another scan.                                                 *)
LEMMA RetentionPurged ==
    ASSUME TypeInv, FiledInv, RetentionInv, NamesApart, NEW s \in Scans, Purge(s)
    PROVE  RetentionInv'
<1>1. /\ UNCHANGED <<made, filed>> /\ stage[s] = "complete"
      /\ stage' = [stage EXCEPT ![s] = "purged"]
      /\ reports' = IF s \in Scheduled THEN reports \ Purged(s) ELSE reports
  BY DEF Purge, Moves
<1>2. stage \in [Scans -> Stages] /\ \A r \in reports : r.born \in Nat /\ r.of \in Scans
  BY DEF TypeInv, TypeOK, Report
<1>3. reports' \in SUBSET reports
  BY <1>1
<1>4. \A t \in Scans \ {s} : stage'[t] = stage[t]
  BY <1>1, <1>2
<1>5. stage'[s] = "purged"
  BY <1>1, <1>2
<1>6. NumberedInv'
  <2>1. IsFiniteSet(reports')
    BY <1>3, FS_Subset DEF RetentionInv, NumberedInv
  <2> QED BY <1>1, <1>3, <1>4, <1>5, <2>1 DEF RetentionInv, NumberedInv
<1>7. \A t \in Scans : Due(t)' = Due(t) /\ Retained(t)' = Retained(t)
  BY <1>1 DEF Due, Retained
<1>8. CASE s \notin Scheduled
  <2>1. \A t \in Scans : Own(t)' = Own(t)
    BY <1>1, <1>8 DEF Own
  <2> QED BY <1>1, <1>4, <1>6, <1>7, <1>8, <2>1 DEF RetentionInv, Overdue
<1>9. CASE s \in Scheduled
  <2>1. Matching(s) = Own(s)
    BY <1>2, <1>9 DEF NamesApart, Matching, Own
  <2>2. \A t \in Scans \ {s} : Own(t)' = Own(t)
    BY <1>1, <1>9, <2>1 DEF Own, Purged
  <2>3. Own(s)' = Own(s) \ Purged(s)
    BY <1>1, <1>9 DEF Own
  <2>4. /\ IsFiniteSet(Own(s)) /\ \A r \in Own(s) : r.born \in Nat
        /\ \A r, q \in Own(s) : r.born = q.born => r = q
    <3>1. Own(s) \in SUBSET reports
      BY DEF Own
    <3> QED BY <1>2, <3>1, FS_Subset DEF RetentionInv, NumberedInv
  <2>5. Retained(s) \in Nat /\ Retained(s) > 0
    BY RetainedType
  <2>6. Cardinality(Own(s))' = Due(s)
    <3>1. CASE Overdue(s)
      <4>1. PICK o \in Own(s) : Purged(s) = {o}
        BY <2>1, <2>4, <2>5, <3>1, OldestGoes DEF Overdue, Purged
      <4>2. Cardinality(Own(s) \ {o}) = Retained(s)
        <5>1. Cardinality(Own(s)) = Retained(s) + 1
          BY <3>1 DEF Overdue
        <5>2. Cardinality(Own(s) \ {o}) = Cardinality(Own(s)) - 1
          BY <2>4, FS_RemoveElement
        <5> QED BY <2>5, <5>1, <5>2
      <4>3. Due(s) = Retained(s)
        BY <3>1, DueType DEF Overdue
      <4> QED BY <2>3, <4>1, <4>2, <4>3
    <3>2. CASE Cardinality(Own(s)) = Due(s)
      <4>1. Due(s) <= Retained(s)
        BY <1>9, <2>5, DueType
      <4>2. ASSUME NEW r \in Own(s)
            PROVE  ~ (Cardinality(After(r, Own(s))) >= Retained(s))
        <5>1. Cardinality(After(r, Own(s))) < Retained(s)
          BY <2>4, <2>5, <3>2, <4>1, NoneGoes
        <5>2. After(r, Own(s)) \in SUBSET Own(s)
          BY DEF After
        <5>3. Cardinality(After(r, Own(s))) \in Nat
          BY <2>4, <5>2, FS_Subset, FS_CardinalityType
        <5> QED BY <2>5, <5>1, <5>3
      <4>3. Purged(s) = {}
        BY <2>1, <4>2 DEF Purged
      <4> QED BY <2>3, <3>2, <4>3
    <3> QED BY <3>1, <3>2 DEF RetentionInv
  <2>7. ASSUME NEW t \in Scans \ {s} PROVE Overdue(t)' \/ Cardinality(Own(t))' = Due(t)'
    BY <1>1, <1>4, <1>7, <2>2 DEF RetentionInv, Overdue
  <2> QED BY <1>6, <1>7, <2>6, <2>7 DEF RetentionInv
<1> QED BY <1>8, <1>9

LEMMA RetentionRun ==
    ASSUME TypeInv, FiledInv, RetentionInv, NamesApart, NEW s \in Scans, Run(s)
    PROVE  RetentionInv'
<1>1. stage \in [Scans -> Stages] /\ made \in Nat /\ \A r \in reports : r.born \in Nat
  BY ArtifactsAssumption DEF TypeInv, TypeOK, Report
<1>2. CASE FileReport(s) /\ s \in outputs
  BY <1>2, RetentionFiled
<1>3. CASE Purge(s)
  BY <1>3, RetentionPurged
<1>4. CASE Launch(s) /\ Free /\ ~RunnerSeen
  <2>1. /\ UNCHANGED <<reports, filed>> /\ made' = made + 1 /\ claim = None
        /\ stage' = [stage EXCEPT ![s] = "launched"] /\ stage[s] = "pending"
    BY <1>4 DEF Launch, Moves, Free
  <2>2. \A r \in reports' : r.born < made'
    BY <1>1, <2>1 DEF FiledInv, BornInv
  <2>3. NumberedInv'
    BY <2>1, <2>2 DEF RetentionInv, NumberedInv
  <2>4. \A t \in Scans : stage[t] = "complete" => stage'[t] = "complete"
    BY <1>1, <2>1
  <2> QED BY <2>1, <2>3, <2>4, RetentionUntouched DEF RetentionInv
<1>5. CASE \/ RunEnds(s) \/ Sweep(s) \/ Release(s) \/ Rerun(s)
           \/ Launch(s) /\ ~ (Free /\ ~RunnerSeen)
           \/ FileReport(s) /\ s \notin outputs
  <2>1. UNCHANGED <<reports, filed, made>>
    BY <1>5 DEF RunEnds, Sweep, Release, Rerun, Launch, FileReport
  <2>2. /\ \A t \in Scans : stage[t] = "complete" => stage'[t] = "complete"
        /\ \A t \in Scans : stage'[t] \in {"launched", "over"}
                                => stage[t] \in {"launched", "over"}
    BY <1>1, <1>5 DEF RunEnds, Sweep, Release, Rerun, Launch, FileReport, Moves
  <2>3. NumberedInv'
    BY <2>1, <2>2 DEF RetentionInv, NumberedInv
  <2> QED BY <2>1, <2>2, <2>3, RetentionUntouched DEF RetentionInv
<1> QED BY <1>2, <1>3, <1>4, <1>5 DEF Run

LEMMA RetentionStep ==
    TypeInv /\ FiledInv /\ RetentionInv /\ NamesApart /\ [Next]_vars => RetentionInv'
<1> SUFFICES ASSUME TypeInv, FiledInv, RetentionInv, NamesApart, [Next]_vars
             PROVE  RetentionInv'
  OBVIOUS
<1>1. CASE \E s \in Scans : Run(s)
  BY <1>1, RetentionRun
<1>2. CASE (\E s \in Scans : Selection(s)) \/ Upgrade \/ RemoveProfile \/ EditSchedule
         \/ UNCHANGED vars
  <2>1. UNCHANGED <<reports, filed, made, stage>>
    BY <1>2 DEF Selection, Detect, Compare, WriteHalf, Write, Choose, Validate, Upgrade,
           RemoveProfile, EditSchedule, vars, runVars
  <2>2. NumberedInv'
    BY <2>1 DEF RetentionInv, NumberedInv
  <2> QED BY <2>1, <2>2, RetentionUntouched DEF RetentionInv
<1> QED BY <1>1, <1>2 DEF Next

(* Where names tell the reports of scans apart, a scheduled scan at rest   *)
(* has as many of its reports as its RetentionCount says, and an on-demand *)
(* scan all of its own (purgeOldClusterScanReports).                       *)
THEOREM RetentionIfApart ==
    ASSUME NamesApart
    PROVE  Spec => []RetentionKept
<1>1. RetentionInv => RetentionKept
  BY DEF RetentionInv, RetentionKept, Overdue
<1>2. RetentionInv /\ TypeInv /\ FiledInv /\ [Next]_vars => RetentionInv'
  BY RetentionStep
<1> QED BY <1>1, <1>2, TypeAlways, FiledAlways, RetentionInit, PTL DEF Spec
=============================================================================
