------------------------ MODULE ScanSelectionProofs ------------------------
(***************************************************************************)
(* Proofs about ScanArtifacts, continued: the versions that passes choose  *)
(* and validate profiles by, although they share KubernetesVersion without *)
(* a lock, and what a report is therefore made for.                        *)
(***************************************************************************)
EXTENDS ScanArtifactsProofs

Tearing == \E t \in Scans : At(t, "tear")

(* What a choice was made by: the name, or the default of a version that   *)
(* was recent when the pass began.                                         *)
ChosenBy(s, p, latest) ==
    IF ProfileNamed[s] # Unnamed THEN p.pick = ProfileNamed[s]
    ELSE p.raced \/ \E v \in p.least..latest : p.pick = DefaultProfile(v)

(* A version told to anyone is past, and no version told to a pass that is *)
(* yet to write is older than the oldest a younger pass expects to read.   *)
ToldInv == \A s \in Scans :
    /\ pass[s].got <= version /\ pass[s].least <= version
    /\ ~At(s, "idle") => \A t \in Told : pass[s].least <= pass[t].got

KnownInv == ~Tearing =>
    /\ known \in 1..version
    /\ \A s \in Scans : pass[s].step \in {"choose", "validate"} => pass[s].least <= known

ChosenInv == \A s \in Scans : pass[s].step \in {"validate", "ready"} => ChosenBy(s, pass[s], version)

(* The same of the pass that launched a run, and of the one that collects. *)
OriginInv == \A s \in Scans :
    /\ stage[s] \in {"launched", "over"} =>
          /\ ChosenBy(s, origin[s], version) /\ origin[s].least <= version
          /\ \A t \in Told : origin[s].least <= pass[t].got
    /\ stage[s] = "launched" => At(s, "idle")
    /\ stage[s] = "over" /\ ~At(s, "idle") => origin[s].least <= pass[s].least

SelectionInv == ToldInv /\ KnownInv /\ ValidatedRecently /\ ChosenInv /\ OriginInv

-----------------------------------------------------------------------------
LEMMA SelectionInit == Init => SelectionInv
<1> SUFFICES ASSUME Init PROVE SelectionInv
  OBVIOUS
<1>1. /\ \A s \in Scans : pass[s] = Idle /\ At(s, "idle") /\ stage[s] = "pending"
      /\ Told = {} /\ known = 1 /\ version = 1
  BY DEF Init, At, Told, Idle
<1>2. Idle.got = 1 /\ Idle.least = 1 /\ Idle.step = "idle"
  BY DEF Idle
<1> QED BY <1>1, <1>2 DEF SelectionInv, ToldInv, KnownInv, ValidatedRecently, ChosenInv,
                          OriginInv, At

(* What the proofs need of the types.                                      *)
LEMMA Numbers ==
    ASSUME TypeInv, NEW s \in Scans
    PROVE  /\ pass[s].got \in Nat /\ pass[s].got >= 1
           /\ pass[s].least \in Nat /\ pass[s].least >= 1
           /\ origin[s].least \in Nat /\ version \in Nat /\ known \in Nat
           /\ version \in Versions
<1>1. Versions \subseteq Nat \ {0} /\ Readable \subseteq Nat
  BY ArtifactsAssumption DEF Versions, Readable, Garbled
<1>2. /\ pass[s] \in Pass /\ origin[s] \in Pass /\ version \in Versions /\ known \in Readable
  BY DEF TypeInv, TypeOK
<1>3. pass[s].got \in Versions /\ pass[s].least \in Versions /\ origin[s].least \in Versions
  BY <1>2 DEF Pass
<1>4. \A v \in Versions : v \in Nat /\ v >= 1
  BY <1>1
<1> QED BY <1>1, <1>2, <1>3, <1>4

(* A choice stays one as the cluster goes on.                              *)
LEMMA ChosenByStays ==
    ASSUME NEW s \in Scans, NEW p, NEW q, NEW v \in Nat, NEW w \in Nat, v <= w,
           q.pick = p.pick, q.least = p.least, p.least \in Nat, p.raced => q.raced,
           ChosenBy(s, p, v)
    PROVE  ChosenBy(s, q, w)
<1>1. p.least..v \subseteq q.least..w
  OBVIOUS
<1> QED BY <1>1 DEF ChosenBy

(* What the last two steps of a pass do to it.                             *)
LEMMA ChooseEffect ==
    ASSUME TypeInv, NEW s \in Scans, Choose(s)
    PROVE  /\ known' = known /\ pass[s].step = "choose"
           /\ \A t \in Scans \ {s} : pass'[t] = pass[t]
           /\ \/ pass'[s].step = "idle" /\ pass'[s].least = 1 /\ pass'[s].got = 1
              \/ /\ pass'[s].step = "validate" /\ pass'[s].raced = Raced(s)
                 /\ pass'[s].pick = Choice(s, known)
                 /\ pass'[s].least = pass[s].least /\ pass'[s].got = pass[s].got
<1>1. pass \in [Scans -> Pass] /\ pass[s] \in Pass
  BY DEF TypeInv, TypeOK
<1>2. known' = known /\ pass[s].step = "choose"
  BY DEF Choose, At
<1>3. CASE ChoiceError(s, known) \/ Choice(s, known) \notin profiles
  BY <1>1, <1>2, <1>3 DEF Choose, Ends, Idle
<1>4. CASE ~ (ChoiceError(s, known) \/ Choice(s, known) \notin profiles)
  <2>1. pass' = [pass EXCEPT ![s].step = "validate", ![s].raced = Raced(s),
                             ![s].pick = Choice(s, known)]
    BY <1>4 DEF Choose
  <2> HIDE DEF Raced, Choice
  <2> QED BY <1>1, <1>2, <2>1 DEF Pass
<1> QED BY <1>3, <1>4

LEMMA ValidateEffect ==
    ASSUME TypeInv, NEW s \in Scans, Validate(s)
    PROVE  /\ known' = known /\ pass[s].step = "validate"
           /\ \A t \in Scans \ {s} : pass'[t] = pass[t]
           /\ \/ pass'[s].step = "idle" /\ pass'[s].least = 1 /\ pass'[s].got = 1
              \/ /\ pass'[s].step = "ready" /\ pass'[s].raced = Raced(s)
                 /\ pass'[s].used = known /\ Validates(pass[s].pick, known)
                 /\ pass'[s].pick = pass[s].pick
                 /\ pass'[s].least = pass[s].least /\ pass'[s].got = pass[s].got
<1>1. pass \in [Scans -> Pass] /\ pass[s] \in Pass
  BY DEF TypeInv, TypeOK
<1>2. known' = known /\ pass[s].step = "validate"
  BY DEF Validate, At
<1>3. CASE ~ Admitted(s)
  BY <1>1, <1>2, <1>3 DEF Validate, Ends, Idle
<1>4. CASE Admitted(s)
  <2>1. pass' = [pass EXCEPT ![s].step = "ready", ![s].raced = Raced(s),
                             ![s].used = known]
    BY <1>4 DEF Validate
  <2>2. Validates(pass[s].pick, known)
    BY <1>4 DEF Admitted
  <2> QED BY <1>1, <1>2, <2>1, <2>2 DEF Pass
<1> QED BY <1>3, <1>4

(* A pass that chooses or validates with nobody in the middle of a write   *)
(* reads a version no older than the oldest it may expect.                 *)
LEMMA SelectionPass ==
    ASSUME TypeInv, SelectionInv, NEW s \in Scans, Selection(s)
    PROVE  SelectionInv'
<1> USE DEF SelectionInv
<1>1. UNCHANGED <<version, profiles, stage, origin>> /\ pass \in [Scans -> Pass]
  BY DEF Selection, Detect, Compare, WriteHalf, Write, Choose, Validate, clusterVars,
         runVars, TypeInv, TypeOK
<1>2. \A t \in Scans : /\ pass[t].got \in Nat /\ pass[t].got >= 1
                       /\ pass[t].least \in Nat /\ pass[t].least >= 1
                       /\ origin[t].least \in Nat
  BY Numbers
<1>3. version \in Nat /\ known \in Nat
  BY Numbers
<1>4. CASE Detect(s)
  <2>1. /\ pass'[s].step = "compare" /\ pass'[s].got = version /\ pass'[s].least \in Nat
        /\ pass'[s].least <= version /\ \A t \in Told : pass'[s].least <= pass[t].got
        /\ pass'[s].least \in {version} \cup {pass[t].got : t \in Told}
        /\ \A t \in Scans \ {s} : pass'[t] = pass[t]
    <3>1. TypeOK /\ Versions \subseteq Nat
      BY ArtifactsAssumption DEF TypeInv, Versions
    <3> QED BY <1>4, <3>1, DetectType
  <2>2. known' = known /\ pass[s].step = "idle" /\ stage[s] \in {"pending", "over"}
    BY <1>4 DEF Detect, At, Selects
  <2>3. Told' = Told \cup {s} /\ Tearing' = Tearing
    BY <2>1, <2>2 DEF Told, Tearing, At
  <2>4. ToldInv'
    <3>1. \A t \in Scans : pass'[t].got <= version /\ pass'[t].least <= version
      BY <1>2, <1>3, <2>1 DEF ToldInv
    <3>2. \A t \in Told : t # s /\ t \in Scans
      BY <2>2 DEF Told
    <3>3. \A t \in Told' : pass'[s].least <= pass'[t].got
      BY <2>1, <2>3, <3>2
    <3>4. ASSUME NEW u \in Scans \ {s}, pass[u].step # "idle"
          PROVE  \A t \in Told' : pass'[u].least <= pass'[t].got
      BY <2>1, <2>3, <3>2, <3>4 DEF ToldInv, At
    <3> QED BY <1>1, <2>1, <3>1, <3>3, <3>4 DEF ToldInv, At
  <2>5. KnownInv'
    BY <1>1, <2>1, <2>2, <2>3 DEF KnownInv
  <2>6. ValidatedRecently' /\ ChosenInv'
    BY <1>1, <2>1 DEF ValidatedRecently, ChosenInv, At
  <2>7. OriginInv'
    <3>1. stage[s] = "over" => origin[s].least <= pass'[s].least
      BY <2>1 DEF OriginInv
    <3>2. \A t \in Scans : stage[t] \in {"launched", "over"} => origin[t].least <= version
      BY DEF OriginInv
    <3>3. \A t \in Told : t # s /\ t \in Scans
      BY <2>2 DEF Told
    <3>4. ASSUME NEW u \in Scans, stage[u] \in {"launched", "over"}
          PROVE  \A t \in Told' : origin[u].least <= pass'[t].got
      BY <2>1, <2>3, <3>2, <3>3, <3>4 DEF OriginInv
    <3> QED BY <1>1, <2>1, <2>2, <3>1, <3>2, <3>4 DEF OriginInv, At
  <2> QED BY <2>4, <2>5, <2>6, <2>7
<1>5. CASE ~ Detect(s)
  <2>1. /\ \A t \in Scans \ {s} : pass'[t] = pass[t]
        /\ pass[s].step # "idle"
        /\ pass'[s].least \in Nat /\ pass'[s].got \in Nat
        /\ pass'[s].least <= pass[s].least /\ pass'[s].got <= pass[s].got
        /\ pass'[s].step # "idle" =>
              pass'[s].least = pass[s].least /\ pass'[s].got = pass[s].got
    <3>1. CASE Compare(s)
      BY <1>1, <1>2, <3>1 DEF Compare, Goes, At
    <3>2. CASE WriteHalf(s)
      BY <1>1, <1>2, <3>2 DEF WriteHalf, Goes, At
    <3>3. CASE Write(s)
      BY <1>1, <1>2, <3>3 DEF Write, Goes, At
    <3>4. CASE Choose(s)
      BY <1>1, <1>2, <3>4, ChooseEffect
    <3>5. CASE Validate(s)
      BY <1>1, <1>2, <3>5, ValidateEffect
    <3> QED BY <1>5, <3>1, <3>2, <3>3, <3>4, <3>5 DEF Selection
  <2>2. Told' \subseteq Told
    <3>1. pass'[s].step \in {"compare", "write", "tear"}
              => pass[s].step \in {"compare", "write", "tear"}
      <4>1. CASE Compare(s)
        BY <4>1 DEF Compare, At
      <4>2. CASE WriteHalf(s)
        BY <4>2 DEF WriteHalf, At
      <4>3. CASE Write(s)
        BY <4>3 DEF Write, At
      <4>4. CASE Choose(s)
        BY <4>4, ChooseEffect
      <4>5. CASE Validate(s)
        BY <4>5, ValidateEffect
      <4> QED BY <1>5, <4>1, <4>2, <4>3, <4>4, <4>5 DEF Selection
    <3> QED BY <2>1, <3>1 DEF Told
  <2>3. \A t \in Told' : pass'[t].got = pass[t].got
    BY <2>1 DEF Told
  <2>4. ToldInv'
    <3>1. \A t \in Scans : pass'[t].got <= version /\ pass'[t].least <= version
      BY <1>2, <1>3, <2>1 DEF ToldInv
    <3>2. ASSUME NEW u \in Scans, pass'[u].step # "idle", NEW t \in Told'
          PROVE  pass'[u].least <= pass'[t].got
      <4>1. pass[u].step # "idle" /\ pass'[u].least = pass[u].least
        BY <2>1, <3>2
      <4>2. t \in Told /\ pass'[t].got = pass[t].got
        BY <2>2, <2>3
      <4> QED BY <4>1, <4>2 DEF ToldInv, At
    <3> QED BY <1>1, <3>1, <3>2 DEF ToldInv, At
  <2>5. OriginInv'
    BY <1>1, <1>2, <2>1, <2>2, <2>3 DEF OriginInv, At
  <2>6. CASE Compare(s)
    <3>1. /\ known' = known /\ pass' = [pass EXCEPT ![s].step = pass'[s].step]
          /\ pass[s].step = "compare" /\ pass'[s].step \in {"choose", "write"}
          /\ pass'[s].step = "choose" => pass[s].got = known
      BY <1>1, <2>6 DEF Compare, Goes, At, Same
    <3>2. Tearing' = Tearing
      BY <2>1, <3>1 DEF Tearing, At
    <3>3. pass[s].least <= pass[s].got
      BY <2>1, <3>1 DEF ToldInv, Told, At
    <3>4. KnownInv'
      BY <1>1, <2>1, <3>1, <3>2, <3>3 DEF KnownInv
    <3>5. ValidatedRecently' /\ ChosenInv'
      BY <1>1, <2>1, <3>1 DEF ValidatedRecently, ChosenInv, At
    <3> QED BY <2>4, <2>5, <3>4, <3>5
  <2>7. CASE WriteHalf(s)
    <3>1. pass'[s].step = "tear"
      BY <1>1, <2>7 DEF WriteHalf, Goes
    <3>2. KnownInv'
      BY <3>1 DEF KnownInv, Tearing, At
    <3>3. ValidatedRecently' /\ ChosenInv'
      BY <1>1, <2>1, <3>1 DEF ValidatedRecently, ChosenInv, At
    <3> QED BY <2>4, <2>5, <3>2, <3>3
  <2>8. CASE Write(s)
    <3>1. /\ known' = pass[s].got /\ pass[s].step = "tear" /\ pass'[s].step = "choose"
      BY <1>1, <2>8 DEF Write, Goes, At
    <3>2. s \in Told
      BY <3>1 DEF Told
    <3>3. \A t \in Scans : pass[t].step # "idle" => pass[t].least <= known'
      BY <3>1, <3>2 DEF ToldInv, At
    <3>4. known' \in 1..version
      BY <1>2, <1>3, <3>1 DEF ToldInv
    <3>5. KnownInv'
      BY <1>1, <2>1, <3>3, <3>4 DEF KnownInv
    <3>6. ValidatedRecently' /\ ChosenInv'
      BY <1>1, <2>1, <3>1 DEF ValidatedRecently, ChosenInv, At
    <3> QED BY <2>4, <2>5, <3>5, <3>6
  <2>9. CASE Choose(s)
    <3>1. /\ known' = known /\ pass[s].step = "choose"
          /\ pass'[s].step \in {"idle", "validate"}
          /\ pass'[s].step = "validate" =>
                pass'[s].raced = Raced(s) /\ pass'[s].pick = Choice(s, known)
      BY <2>9, ChooseEffect
    <3>2. Tearing' = Tearing
      BY <2>1, <3>1 DEF Tearing, At
    <3>3. KnownInv'
      BY <1>1, <2>1, <3>1, <3>2 DEF KnownInv
    <3>4. ValidatedRecently'
      BY <1>1, <2>1, <3>1 DEF ValidatedRecently, At
    <3>5. ~Tearing => known \in pass[s].least..version
      BY <1>2, <1>3, <3>1 DEF KnownInv
    <3>6. Tearing => Raced(s)
      BY DEF Tearing, Raced
    <3>7. pass'[s].step = "validate" => ChosenBy(s, pass'[s], version)
      BY <2>1, <3>1, <3>5, <3>6 DEF ChosenBy, Choice
    <3>8. ChosenInv'
      BY <1>1, <2>1, <3>1, <3>7 DEF ChosenInv, ChosenBy
    <3> QED BY <2>4, <2>5, <3>3, <3>4, <3>8
  <2>10. CASE Validate(s)
    <3>1. /\ known' = known /\ pass[s].step = "validate"
          /\ pass'[s].step \in {"idle", "ready"}
          /\ pass'[s].step = "ready" =>
                /\ pass'[s].raced = Raced(s) /\ pass'[s].pick = pass[s].pick
                /\ pass'[s].used = known /\ Validates(pass[s].pick, known)
      BY <2>10, ValidateEffect
    <3>2. Tearing' = Tearing
      BY <2>1, <3>1 DEF Tearing, At
    <3>3. KnownInv'
      BY <1>1, <2>1, <3>1, <3>2 DEF KnownInv
    <3>4. ~Tearing => known \in pass[s].least..version
      BY <1>2, <1>3, <3>1 DEF KnownInv
    <3>5. Tearing \/ pass[s].raced => Raced(s)
      BY DEF Tearing, Raced
    <3>6. ValidatedRecently'
      BY <1>1, <2>1, <3>1, <3>4, <3>5 DEF ValidatedRecently, At
    <3>7. ChosenInv'
      BY <1>1, <2>1, <3>1, <3>5 DEF ChosenInv, ChosenBy
    <3> QED BY <2>4, <2>5, <3>3, <3>6, <3>7
  <2> QED BY <1>5, <2>6, <2>7, <2>8, <2>9, <2>10 DEF Selection
<1> QED BY <1>4, <1>5

(* A launch or a report ends its pass; the rest of a run leaves passes be. *)
LEMMA SelectionRun ==
    ASSUME TypeInv, SelectionInv, NEW s \in Scans, Run(s)
    PROVE  SelectionInv'
<1> USE DEF SelectionInv
<1>1. /\ pass \in [Scans -> Pass] /\ stage \in [Scans -> Stages] /\ origin \in [Scans -> Pass]
  BY DEF TypeInv, TypeOK
<1>2. UNCHANGED <<version, known>>
  BY DEF Run, Launch, RunEnds, FileReport, Purge, Sweep, Release, Rerun, clusterVars,
         choiceVars
<1>3. \A t \in Scans : /\ pass[t].got \in Nat /\ pass[t].got >= 1
                       /\ pass[t].least \in Nat /\ pass[t].least >= 1
  BY Numbers
<1>4. version \in Nat /\ known \in Nat /\ version >= 1
  BY Numbers DEF Versions
<1>5. /\ \A t \in Scans \ {s} : pass'[t] = pass[t]
      /\ pass'[s] = pass[s] \/ (pass[s].step = "ready" /\ pass'[s] = Idle)
  BY <1>1 DEF Run, Launch, RunEnds, FileReport, Purge, Sweep, Release, Rerun, Ends, At,
         choiceVars
<1>6. Idle.step = "idle" /\ Idle.got = 1 /\ Idle.least = 1
  BY DEF Idle
<1>7. Told' = Told /\ Tearing' = Tearing /\ \A t \in Told : pass'[t] = pass[t]
  BY <1>5, <1>6 DEF Told, Tearing, At
<1>8. ToldInv'
  BY <1>2, <1>3, <1>4, <1>5, <1>6, <1>7 DEF ToldInv, At
<1>9. KnownInv'
  BY <1>2, <1>5, <1>6, <1>7 DEF KnownInv
<1>10. ValidatedRecently' /\ ChosenInv'
  BY <1>2, <1>5, <1>6 DEF ValidatedRecently, ChosenInv, At
<1>11. /\ \A t \in Scans \ {s} : stage'[t] = stage[t] /\ origin'[t] = origin[t]
       /\ \/ stage'[s] \notin {"launched", "over"}
          \/ /\ stage[s] = "pending" /\ stage'[s] = "launched"
             /\ pass[s].step = "ready" /\ pass'[s] = Idle /\ origin'[s] = pass[s]
          \/ /\ stage[s] = "launched" /\ stage'[s] = "over"
             /\ pass'[s] = pass[s] /\ origin'[s] = origin[s]
          \/ /\ stage[s] = "over" /\ stage'[s] = "over"
             /\ pass'[s] = Idle /\ origin'[s] = origin[s]
  <2>1. CASE Launch(s)
    BY <1>1, <2>1 DEF Launch, Moves, Ends, At
  <2>2. CASE RunEnds(s)
    BY <1>1, <2>2 DEF RunEnds, Moves, choiceVars
  <2>3. CASE FileReport(s)
    BY <1>1, <2>3 DEF FileReport, Moves, Ends, At
  <2>4. CASE Purge(s) \/ Sweep(s) \/ Release(s) \/ Rerun(s)
    BY <1>1, <2>4 DEF Purge, Sweep, Release, Rerun, Moves
  <2> QED BY <2>1, <2>2, <2>3, <2>4 DEF Run
<1>12. OriginInv'
  <2>1. ASSUME NEW t \in Scans \ {s}
        PROVE  /\ stage'[t] \in {"launched", "over"} =>
                     /\ ChosenBy(t, origin'[t], version') /\ origin'[t].least <= version'
                     /\ \A u \in Told' : origin'[t].least <= pass'[u].got
               /\ stage'[t] = "launched" => pass'[t].step = "idle"
               /\ stage'[t] = "over" /\ pass'[t].step # "idle"
                     => origin'[t].least <= pass'[t].least
    BY <1>2, <1>5, <1>7, <1>11 DEF OriginInv, At
  <2>2. stage'[s] \in {"launched", "over"} =>
            /\ ChosenBy(s, origin'[s], version') /\ origin'[s].least <= version'
            /\ \A u \in Told' : origin'[s].least <= pass'[u].got
    <3>1. CASE stage[s] = "pending" /\ stage'[s] = "launched" /\ pass[s].step = "ready"
               /\ origin'[s] = pass[s]
      BY <1>2, <1>7, <3>1 DEF ToldInv, ChosenInv, At
    <3>2. CASE stage[s] \in {"launched", "over"} /\ origin'[s] = origin[s]
      BY <1>2, <1>7, <3>2 DEF OriginInv
    <3> QED BY <1>11, <3>1, <3>2
  <2>3. stage'[s] = "launched" => pass'[s].step = "idle"
    BY <1>6, <1>11
  <2>4. stage'[s] = "over" => pass'[s].step = "idle"
    BY <1>6, <1>11 DEF OriginInv, At
  <2> QED BY <2>1, <2>2, <2>3, <2>4 DEF OriginInv, At
<1> QED BY <1>8, <1>9, <1>10, <1>12

LEMMA SelectionStep == TypeInv /\ SelectionInv /\ [Next]_vars => SelectionInv'
<1> SUFFICES ASSUME TypeInv, SelectionInv, [Next]_vars PROVE SelectionInv'
  OBVIOUS
<1>1. CASE \E s \in Scans : Selection(s) \/ Run(s)
  BY <1>1, SelectionPass, SelectionRun
<1>2. CASE Upgrade \/ RemoveProfile \/ EditSchedule \/ UNCHANGED vars
  <2>1. /\ UNCHANGED <<known, pass, stage, origin>> /\ version' \in {version, version + 1}
    BY <1>2 DEF Upgrade, RemoveProfile, EditSchedule, vars, clusterVars, choiceVars, runVars
  <2>2. \A s \in Scans : /\ pass[s].got \in Nat /\ pass[s].least \in Nat
                         /\ origin[s].least \in Nat
    BY Numbers
  <2>3. version \in Nat /\ version' \in Nat /\ version <= version'
    BY <2>1 DEF TypeInv, TypeOK, Versions
  <2>4. Told' = Told /\ Tearing' = Tearing /\ \A s \in Scans : \A st \in Steps : At(s, st)' = At(s, st)
    BY <2>1 DEF Told, Tearing, At
  <2>5. ToldInv'
    BY <2>1, <2>2, <2>3, <2>4 DEF SelectionInv, ToldInv, At
  <2>6. KnownInv'
    BY <2>1, <2>2, <2>3, <2>4 DEF SelectionInv, KnownInv
  <2>7. ValidatedRecently'
    BY <2>1, <2>2, <2>3 DEF SelectionInv, ValidatedRecently, At
  <2>8. \A s \in Scans : \A p : p.least \in Nat /\ ChosenBy(s, p, version)
                                    => ChosenBy(s, p, version')
    BY <2>3, ChosenByStays
  <2>9. ChosenInv'
    BY <2>1, <2>2, <2>8 DEF SelectionInv, ChosenInv
  <2>10. OriginInv'
    BY <2>1, <2>2, <2>3, <2>4, <2>8 DEF SelectionInv, OriginInv, At
  <2> QED BY <2>5, <2>6, <2>7, <2>9, <2>10 DEF SelectionInv
<1> QED BY <1>1, <1>2 DEF Next

LEMMA SelectionAlways == Spec => []SelectionInv
<1> QED BY TypeAlways, SelectionInit, SelectionStep, PTL DEF Spec

-----------------------------------------------------------------------------
(* A profile goes on to a launch or a report only if it fits a version the *)
(* cluster had lately, whichever of any number of passes wrote              *)
(* KubernetesVersion last (refreshClusterKubernetesVersion).               *)
THEOREM AlwaysValidatedRecently == Spec => []ValidatedRecently
<1>1. SelectionInv => ValidatedRecently
  BY DEF SelectionInv
<1> QED BY <1>1, SelectionAlways, PTL

LEMMA ReportStep ==
    TypeInv /\ SelectionInv /\ [Next]_vars =>
        [\A s \in Scans : \A r \in reports' \ reports :
            r.of = s =>
            \/ BenchmarkOf[r.profile] = BenchmarkOf[origin[s].pick]
            \/ /\ ProfileNamed[s] = Unnamed
               /\ origin[s].least < version \/ origin[s].raced \/ pass[s].raced]_vars
<1> SUFFICES ASSUME TypeInv, SelectionInv, Next,
                    NEW s \in Scans, NEW r \in reports' \ reports, r.of = s
             PROVE  \/ BenchmarkOf[r.profile] = BenchmarkOf[origin[s].pick]
                    \/ /\ ProfileNamed[s] = Unnamed
                       /\ origin[s].least < version \/ origin[s].raced \/ pass[s].raced
  OBVIOUS
<1>1. PICK t \in Scans : FileReport(t)
  BY DEF Next, Selection, Detect, Compare, WriteHalf, Write, Choose, Validate, Run, Launch,
         RunEnds, Purge, Sweep, Release, Rerun, Upgrade, RemoveProfile, EditSchedule, runVars
<1>2. r = [of |-> t, born |-> made, profile |-> pass[t].pick]
  BY <1>1 DEF FileReport
<1>3. t = s /\ r.profile = pass[s].pick /\ stage[s] = "over" /\ pass[s].step = "ready"
  BY <1>1, <1>2 DEF FileReport, At
<1>4. ChosenBy(s, pass[s], version) /\ ChosenBy(s, origin[s], version)
  BY <1>3 DEF SelectionInv, ChosenInv, OriginInv
<1>5. origin[s].least <= version /\ origin[s].least <= pass[s].least
  BY <1>3 DEF SelectionInv, OriginInv, At
<1>6. CASE ProfileNamed[s] # Unnamed
  BY <1>3, <1>4, <1>6 DEF ChosenBy
<1>7. CASE ProfileNamed[s] = Unnamed /\ ~ (origin[s].least < version)
           /\ ~ origin[s].raced /\ ~ pass[s].raced
  <2>1. /\ version \in Nat /\ origin[s].least \in Nat /\ pass[s].least \in Nat
    BY Numbers
  <2>2. origin[s].least = version /\ pass[s].least >= version
    BY <1>5, <1>7, <2>1
  <2>3. origin[s].pick = DefaultProfile(version) /\ pass[s].pick = DefaultProfile(version)
    BY <1>4, <1>7, <2>1, <2>2 DEF ChosenBy
  <2> QED BY <1>3, <2>3
<1> QED BY <1>6, <1>7

(* A report is filed under the benchmark its run was made with, but for a  *)
(* scan that leaves the choice to the operator and an upgrade, or a read   *)
(* in the middle of a write, in between (createClusterScanReport).         *)
THEOREM ReportsOfTheirRuns == Spec => ReportOfItsRun
<1> QED BY TypeAlways, SelectionAlways, ReportStep, PTL DEF Spec, ReportOfItsRun
=============================================================================
