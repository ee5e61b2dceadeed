---------------------------- MODULE DeviceSession ----------------------------
(***************************************************************************)
(* SetInitialConfig as the reconciler sees it: one step per call, of a     *)
(* device that may be restarted at any time.                               *)
(***************************************************************************)
EXTENDS DeviceOutcomes

VARIABLES
    device,  \* the network OS in the Node's container
    result   \* of the latest call: "pending" before it returns

vars == <<device, result>>

Init == device = "down" /\ result = "none"

\* The container dies, and comes up from its image.
Crash == device' = "down" /\ UNCHANGED result
Boot == device = "down" /\ device' = "empty" /\ UNCHANGED result

Call == result # "pending" /\ result' = "pending" /\ UNCHANGED device

Return ==
    /\ result = "pending"
    /\ \E r \in Outcomes(device) :
         /\ device' = r.left
         /\ result' = IF r.ok THEN "ok" ELSE "error"

Next == Crash \/ Boot \/ Call \/ Return

Spec == Init /\ [][Next]_vars

=============================================================================
