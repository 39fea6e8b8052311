----------------------------- MODULE ScanSerial -----------------------------
(***************************************************************************)
(* What currentScanName and its mutex promise to the rest of the operator: *)
(* a scan claims the runner, its Job starts and ends under the claim, and  *)
(* the claim is given back once the Job is gone. The controller            *)
(* (ScanController) implements this as long as nobody deletes a scan and   *)
(* the process is not restarted.                                           *)
(***************************************************************************)
CONSTANTS Scans, None

VARIABLES claim,      \* the scan that has the runner, or None
          running     \* the scans whose Job exists

vars == <<claim, running>>

Init == claim = None /\ running = {}

Acquire(s) == /\ claim = None
              /\ claim' = s
              /\ UNCHANGED running

Start(s) == /\ claim = s /\ running = {}
            /\ running' = {s}
            /\ UNCHANGED claim

Stop(s) == /\ running = {s}
           /\ running' = {}
           /\ UNCHANGED claim

Release == /\ claim # None /\ running = {}
           /\ claim' = None
           /\ UNCHANGED running

Next == Release \/ \E s \in Scans : Acquire(s) \/ Start(s) \/ Stop(s)

Spec == Init /\ [][Next]_vars
=============================================================================
