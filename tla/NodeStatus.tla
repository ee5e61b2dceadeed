------------------------------ MODULE NodeStatus ------------------------------
(***************************************************************************)
(* What the operator promises to whoever reads Nodes, with neither Pods    *)
(* nor caches nor a queue.  A run of Reconcile reads a Node at some time,  *)
(* and ends by storing a condition, by letting the Node go, or by doing    *)
(* nothing.  A Node is asleep when nothing will bring it back to the       *)
(* operator: only a run that has nothing left to do may leave it so, and   *)
(* whatever is seen to change wakes it.                                    *)
(***************************************************************************)
CONSTANTS Nodes, None

VARIABLES
    shown,   \* the Node of each name, or None
    asleep,  \* names nothing will bring back to the operator
    reading  \* name, identity and spec that the present run has read, or None

vars == <<shown, asleep, reading>>

\* Conditions of work in progress, or of an obstacle that will be gone.
Pending == {"Unknown", "NotReadyEmpty", "NotReadyContainer", "NotReadyAddress",
            "FailedFinalizer", "FailedPodExists", "FailedPodGone",
            "FailedPodUnseen", "FailedInitialConfig"}

\* Nothing is left to do for it.
Done(o) == IF o.deleting THEN "nodedeployer" \notin o.finalizers
                         ELSE o.status \notin Pending

Init ==
    /\ shown = [n \in Nodes |-> None]
    /\ asleep = {}
    /\ reading = None

\* Only n is seen to change.
Shows(n) ==
    /\ shown'[n] # shown[n]
    /\ \A m \in Nodes \ {n} : shown'[m] = shown[m]
    /\ asleep' \subseteq asleep \ {n}

\* Somebody else creates, edits, deletes or releases a Node.
Change(n) ==
    /\ Shows(n)
    /\ shown'[n] # None =>
         /\ shown'[n].status = IF shown[n] = None THEN "Unknown" ELSE shown[n].status
         /\ shown[n] # None => shown'[n].uid = shown[n].uid
    /\ UNCHANGED reading

\* A run begins; what it has read may be out of date.
Look(n) ==
    /\ reading = None
    /\ n \notin asleep
    /\ reading' # None /\ reading'.node = n
    /\ UNCHANGED <<shown, asleep>>

\* The run's own Node, still the one that was read.
AsRead(n) ==
    /\ reading # None
    /\ reading.node = n
    /\ shown[n] # None
    /\ reading.uid = shown[n].uid
    /\ reading.spec = shown[n].spec

Report(n) ==
    /\ AsRead(n)
    /\ Shows(n)
    /\ shown'[n] # None
    /\ shown'[n] = [shown[n] EXCEPT !.status = shown'[n].status]
    /\ shown[n].deleting => shown'[n].status = "FailedFinalizer"
    /\ reading' = None

Release(n) ==
    /\ AsRead(n)
    /\ Shows(n)
    /\ shown[n].deleting
    /\ shown'[n] # None =>
         shown'[n] = [shown[n] EXCEPT !.finalizers = @ \ {"nodedeployer"}]
    /\ reading' = None

\* A run ends, or finds at once that there is nothing to do, and says nothing.
Rest(n) ==
    /\ reading # None => reading.node = n /\ reading' = None
    /\ reading = None => UNCHANGED reading
    /\ shown[n] # None /\ Done(shown[n])
    /\ asleep' \subseteq asleep \cup {n}
    /\ UNCHANGED shown

\* Something wakes Nodes up; a run may have been cut off.
Rouse ==
    /\ asleep' \subseteq asleep
    /\ reading' \in {reading, None}
    /\ UNCHANGED shown

Next ==
    \/ \E n \in Nodes : Change(n) \/ Look(n) \/ Report(n) \/ Release(n) \/ Rest(n)
    \/ Rouse

Spec == Init /\ [][Next]_vars

=============================================================================
