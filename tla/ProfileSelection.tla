-------------------------- MODULE ProfileSelection --------------------------
(***************************************************************************)
(* Which ClusterScanProfile a scan runs with: the one it names, or the     *)
(* default of the cluster's provider, and whether its benchmark fits the   *)
(* cluster. Kubernetes versions are points in their order (a pre-release   *)
(* comes before its release); a version range is the set of versions in    *)
(* it, so how a range is written is left out, but not that it may be       *)
(* missing or unreadable.                                                  *)
(***************************************************************************)
EXTENDS Integers, Sequences, FiniteSetsExt

CONSTANTS
    Provider,     \* the cluster's provider, detected once
    DefaultTable, \* lines of each key of the ConfigMap default-clusterscanprofiles
    BenchmarkOf,  \* Spec.BenchmarkVersion of each profile there may be
    Benchmarks    \* the benchmarks by name: provider ("" for any), min and max

(* A version that is no semantic version, such as one read while another   *)
(* goroutine writes it; a name no profile has.                             *)
Garbled == 0
Nowhere == "nowhere"
Unnamed == ""

(* A line "range:profile" of the ConfigMap; one without a colon is plain,  *)
(* and a range may be empty or bad.                                        *)
LineKinds == {"plain", "empty", "bad", "range"}

IsLine(line) == /\ line.kind \in LineKinds
                /\ line.accepts \subseteq Nat \ {Garbled}
                /\ line.profile \in STRING

IsBenchmark(b) == b.provider \in STRING /\ b.min \in Nat /\ b.max \in Nat

ASSUME SelectionAssumption ==
    /\ {Nowhere, Unnamed, Provider} \subseteq STRING
    /\ DOMAIN DefaultTable \subseteq STRING
    /\ \A key \in DOMAIN DefaultTable :
          \A i \in DOMAIN DefaultTable[key] : IsLine(DefaultTable[key][i])
    /\ DOMAIN BenchmarkOf \subseteq STRING \ {Nowhere, Unnamed}
    /\ \A b \in DOMAIN Benchmarks : IsBenchmark(Benchmarks[b])

-----------------------------------------------------------------------------
(* getDefaultClusterScanProfile.                                           *)

Lines(key) == IF key \in DOMAIN DefaultTable THEN DefaultTable[key] ELSE <<>>

ProviderLines ==
    Lines(IF Provider \in DOMAIN DefaultTable THEN Provider ELSE "default")

(* The text of an entry taken whole: a name if it is one plain line.       *)
Whole(lines) ==
    IF Len(lines) = 1 /\ lines[1].kind = "plain" THEN lines[1].profile ELSE Nowhere

Hits(lines, version) ==
    {i \in DOMAIN lines : lines[i].kind = "range" /\ version \in lines[i].accepts}

(* A version that cannot be parsed is an error once a line asks for it.    *)
DefaultError(version) ==
    /\ Len(ProviderLines) > 1
    /\ version = Garbled
    /\ \E i \in DOMAIN ProviderLines : ProviderLines[i].kind # "plain"

(* The first line whose range has the version; else the default entry.     *)
DefaultProfile(version) ==
    LET hits == Hits(ProviderLines, version)
    IN IF Len(ProviderLines) <= 1 THEN Whole(ProviderLines)
       ELSE IF hits = {} THEN Whole(Lines("default"))
       ELSE ProviderLines[Min(hits)].profile

-----------------------------------------------------------------------------
(* validateClusterScanProfile: the benchmark exists, is for this provider, *)
(* and its bounds have the version.                                        *)

Fits(b, version) ==
    /\ b.provider \in {"", Provider}
    /\ version # Garbled
    /\ b.min <= version /\ version <= b.max

Validates(profile, version) ==
    /\ BenchmarkOf[profile] \in DOMAIN Benchmarks
    /\ Fits(Benchmarks[BenchmarkOf[profile]], version)
=============================================================================
