--------------------------- MODULE DeviceOutcomes ---------------------------
(***************************************************************************)
(* What one call of a provider's SetInitialConfig may do to the network OS *)
(* it reaches, and return: the contract the reconciler relies on.          *)
(***************************************************************************)

\* down: no container answers; empty: booted, nothing sent; pushed: a session
\* came as far as the commit, but the whole configuration is not known to be
\* in the startup file; saved: it is.
DeviceStates == {"down", "empty", "pushed", "saved"}

Pushed(d) == IF d = "saved" THEN "saved" ELSE "pushed"

\* The session nothing went wrong in.
Success == [left |-> "saved", ok |-> TRUE]

\* An error leaves any part of the work done.  No error is no proof of
\* success: the devices' answers, and the error of "commit save", are dropped.
Outcomes(d) ==
    {r \in [left : DeviceStates, ok : BOOLEAN] :
        IF d = "down"
        THEN r.left = d /\ ~r.ok
        ELSE \/ r.left \in {Pushed(d), "saved"}
             \/ r.left = d /\ ~r.ok}

=============================================================================
