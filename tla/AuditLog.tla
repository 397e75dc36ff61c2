------------------------------- MODULE AuditLog ------------------------------
(***************************************************************************)
(* What the audit trail promises, whatever queue or task carries a row: a  *)
(* row that was handed over is stored, or its loss is on the log, at most  *)
(* once, and a shutdown that has ended left no row waiting.                *)
(***************************************************************************)
CONSTANT Rows
VARIABLES
    fate,    \* fate[r]: what has become of r
    phase    \* "open", "closing", "closed"

avars == <<fate, phase>>

Final == {"stored", "reported", "dropped"}

AInit == fate = [r \in Rows |-> "new"] /\ phase = "open"

\* A row is handed over: to be written by the caller itself, or later.
Accept(r) ==
    /\ fate[r] = "new"
    /\ \/ fate' = [fate EXCEPT ![r] = "inline"]
       \/ phase = "open" /\ fate' = [fate EXCEPT ![r] = "waiting"]
    /\ UNCHANGED phase

\* Its fate is decided.
Resolve(r) ==
    /\ fate[r] \in {"inline", "waiting"}
    /\ \E f \in Final : fate' = [fate EXCEPT ![r] = f]
    /\ UNCHANGED phase

\* Shutdown begins, and ends once nothing waits; at once, if nothing ever did.
BeginClose == phase = "open" /\ phase' = "closing" /\ UNCHANGED fate
EndClose ==
    /\ phase # "closed" /\ \A r \in Rows : fate[r] # "waiting"
    /\ phase' = "closed" /\ UNCHANGED fate

ANext == (\E r \in Rows : Accept(r) \/ Resolve(r)) \/ BeginClose \/ EndClose

\* What never happens: the steps alone.
AuditSteps == AInit /\ [][ANext]_avars

\* A row handed over while closing, or written by its caller, is resolved, and
\* a shutdown ends.  A row may wait for the shutdown: nobody restarts a worker.
AuditSpec ==
    /\ AuditSteps
    /\ \A r \in Rows : WF_avars(Resolve(r) /\ (phase # "open" \/ fate[r] = "inline"))
    /\ WF_avars(phase = "closing" /\ EndClose)
=============================================================================
