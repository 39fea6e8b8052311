------------------------------ MODULE ScanLife ------------------------------
(***************************************************************************)
(* What a user sees of the scans: a scan that is asked for is run once, it *)
(* gets the outcome of its runner, and it is run again if it is scheduled, *)
(* when the next run is due. From the launch of a run to its final status  *)
(* no other run starts. The controller (ScanController) implements this as *)
(* long as nothing goes wrong but rejections, which only put a run off.    *)
(***************************************************************************)
CONSTANTS Scans,      \* the scans there may be
          Repeated    \* those with a schedule

VARIABLES stage,      \* where each scan is: "none", "asked", "running", "ended",
                      \* "retiring" or "done"
          outcome,    \* how its last run ended: "none", "completed" or "failed"
          due         \* the scans whose next run is due

vars == <<stage, outcome, due>>

Init ==
    /\ stage = [s \in Scans |-> "none"]
    /\ outcome = [s \in Scans |-> "none"]
    /\ due = {}

(* The runner is taken from the launch of a run to its final status.       *)
Taken == \E t \in Scans : stage[t] \in {"running", "ended", "retiring"}

Moves(s, from, to) == stage[s] = from /\ stage' = [stage EXCEPT ![s] = to]

Ask(s) == /\ Moves(s, "none", "asked")
          /\ UNCHANGED <<outcome, due>>

Launch(s) == /\ Moves(s, "asked", "running")
             /\ ~Taken
             /\ UNCHANGED <<outcome, due>>

End(s) == /\ Moves(s, "running", "ended")
          /\ \E o \in {"completed", "failed"} : outcome' = [outcome EXCEPT ![s] = o]
          /\ UNCHANGED due

TakeDown(s) == /\ Moves(s, "ended", "retiring")
               /\ UNCHANGED <<outcome, due>>

Retire(s) == /\ Moves(s, "retiring", "done")
             /\ UNCHANGED <<outcome, due>>

FallDue(s) == /\ stage[s] = "done" /\ s \in Repeated
              /\ due' = due \cup {s}
              /\ UNCHANGED <<stage, outcome>>

Again(s) == /\ Moves(s, "done", "asked")
            /\ s \in due
            /\ due' = due \ {s}
            /\ outcome' = [outcome EXCEPT ![s] = "none"]

Next == \E s \in Scans : \/ Ask(s) \/ Launch(s) \/ End(s) \/ TakeDown(s)
                         \/ Retire(s) \/ FallDue(s) \/ Again(s)

Spec == Init /\ [][Next]_vars
=============================================================================
