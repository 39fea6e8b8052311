--------------------------- MODULE ScanConditions ---------------------------
(***************************************************************************)
(* What the handlers do to the list Status.Conditions, call by call, and   *)
(* that ScanStatus, which keeps a field per condition, says the same.      *)
(***************************************************************************)
EXTENDS ScanStatus, ConditionList

(* Messages: the constants of the handlers, and an error's text.           *)
Waiting    == "ClusterScan run pending"
Creating   == "Creating Job to run the CIS scan"
NoRule     == "No AlertRule configured for this scan"
RuleFailed == "Alerts will not work"

ASSUME TypeAssumption ==
    /\ {"Pending", "Created", "RunCompleted", "Failed", "Complete", "Alerted"} \subseteq STRING
    /\ {Waiting, Creating, NoRule, RuleFailed, "true", "error", "other"} \subseteq STRING

(* The conditions a status stands for, as pairs of type and value, and a   *)
(* list with an entry for each, in the order the handlers write them first. *)
Flag(type, on) == IF on THEN <<<<type, "True">>>> ELSE <<>>
Valued(type, value) == IF value = "none" THEN <<>> ELSE <<<<type, value>>>>

Pairs(st) ==
    Flag("Pending", st.pending) \o Flag("Created", st.created) \o
    Valued("RunCompleted", st.ran) \o Flag("Failed", st.failed) \o
    Flag("Complete", st.complete) \o Valued("Alerted", st.alerted)

ListOf(st) == [i \in DOMAIN Pairs(st) |->
                  [NewCond(Pairs(st)[i][1]) EXCEPT !.status = Pairs(st)[i][2]]]

(* The list says what the status says, and says it once.                   *)
Agrees(list, st) ==
    /\ Len(list) = Len(Pairs(st))
    /\ {<<c.type, c.status>> : c \in Range(list)} = Range(Pairs(st))

-----------------------------------------------------------------------------
(* The calls of each handler.                                              *)

PendedList(list, now) == Told(list, "Pending", "True", Waiting, now)

(* Conditions = []GenericCondition{}: nothing of the last run is left.     *)
Emptied(list) == <<>>

RelistedList(list, now) == PendedList(Emptied(list), now)

RejectedList(list, err, now) ==
    Told(RelistedList(list, now), "Failed", "True", err, now)

LaunchedList(list, now) ==
    LET relisted == RelistedList(list, now)
        cleared  == IF Cond(relisted, "Failed").status = "True"
                    THEN SetStatus(relisted, "Failed", "False", now) ELSE relisted
        created  == SetStatus(cleared, "Created", "True", now)
    IN Told(created, "RunCompleted", "Unknown", Creating, now)

MarkedList(list, done, now) ==
    LET ran    == SetStatus(list, "RunCompleted", "True", now)
        failed == SetStatus(ran, "Failed", "True", now)
    IN CASE done = "true"              -> ran
         [] done = "error"             -> failed
         [] done \notin {"true", "error"} -> SetMessage(failed, "Failed", done, now)

CompletedList(list, now) == SetStatus(list, "Complete", "True", now)

RetiredList(list, now) ==
    IF Cond(list, "Failed").status = "True" THEN list
    ELSE SetStatus(list, "Alerted", "Unknown", now)

AlertResolvedList(list, configured, rule, now) ==
    IF configured /\ rule THEN SetStatus(list, "Alerted", "True", now)
    ELSE Told(list, "Alerted", "False", IF configured THEN RuleFailed ELSE NoRule, now)

-----------------------------------------------------------------------------
(* From a status a handler takes up, its calls leave one entry per         *)
(* condition, with the value ScanStatus gives the field.                   *)
ListAgrees(st, now) ==
    LET list == ListOf(st)
    IN /\ Agrees(list, st)
       /\ Eligible(st) =>
             IF ~st.pending THEN Agrees(PendedList(list, now), Pended(st, FALSE))
             ELSE /\ Agrees(RejectedList(list, "error", now), Rejected(st, FALSE))
                  /\ Agrees(LaunchedList(list, now), Launched(st, TRUE, FALSE))
       /\ st.ran # "True" => \A done \in {"true", "error", "other"} :
             Agrees(MarkedList(list, done, now), Marked(st, done, FALSE))
       /\ st.ran = "True" => Agrees(CompletedList(list, now), Completed(st, "clean"))
       /\ st.complete => Agrees(RetiredList(list, now), Retired(st, TRUE, FALSE))
       /\ WakesMetrics(st) => \A configured \in BOOLEAN :
             Agrees(AlertResolvedList(list, configured, st.rule, now),
                    AlertResolved(st, configured))
=============================================================================
