--------------------------- MODULE MCScanArtifacts ---------------------------
(***************************************************************************)
(* ScanArtifacts for TLC: two scans, one that names its profile and one    *)
(* that leaves it to the operator, on a cluster whose default profile      *)
(* changes with an upgrade, as in the chart's ConfigMap.                   *)
(***************************************************************************)
EXTENDS ScanArtifacts

TwoScans == {"named", "open"}

OpenOnly == {"open"}

(* Names of which one has the other within it; the same, and the ConfigMap *)
(* of the default profiles has it, too; names of which one extends the     *)
(* other.                                                                  *)
EnclosedWords == [s \in Scans |-> IF s = "named" THEN <<"web">> ELSE <<"my", "web">>]
NameOfDefaults == [s \in Scans |-> IF s = "named" THEN <<"default">> ELSE <<"my", "default">>]
ExtendedWords == [s \in Scans |-> IF s = "named" THEN <<"web">> ELSE <<"web", "prod">>]

Profiles == {"chosen", "old", "new"}
NamedOrOpen == [s \in Scans |-> IF s = "named" THEN "chosen" ELSE Unnamed]
WordsOfProfiles == [p \in Profiles \cup {Unnamed} |-> IF p = Unnamed THEN <<>> ELSE <<p>>]

OneOrDefault == [s \in Scans |-> IF s = "named" THEN 1 ELSE 0]
OneEach == [s \in Scans |-> 1]

RangeLine(versions, profile) ==
    [kind |-> "range", accepts |-> versions, profile |-> profile]
OtherLine(kind, profile) == [kind |-> kind, accepts |-> {}, profile |-> profile]

ByVersion ==
    [key \in {"rke2", "default"} |->
        IF key = "rke2" THEN <<OtherLine("bad", "none"), RangeLine({1}, "old"),
                               RangeLine({2}, "new")>>
        ELSE <<OtherLine("plain", "old")>>]

SameNames == [p \in Profiles |-> p]

(* The benchmarks of the named profile and of the old default end with the *)
(* version before the upgrade.                                             *)
Succeeding ==
    [b \in Profiles |-> [provider |-> IF b = "chosen" THEN "" ELSE "rke2",
                         min |-> IF b = "new" THEN 2 ELSE 1,
                         max |-> IF b = "new" THEN 2 ELSE 1]]
=============================================================================
