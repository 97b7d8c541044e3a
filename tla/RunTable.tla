------------------------------- MODULE RunTable -------------------------------
(***************************************************************************)
(* The runs of a session as everyone but the runtime sees them: one status *)
(* per run, each operation one step.  This is what RunLifecycle's          *)
(* submitters, workers, cancellers, crashes and restarts amount to; the    *)
(* in-memory store performs these steps under its mutex.                   *)
(***************************************************************************)
EXTENDS Naturals

CONSTANT MaxRuns       \* bound: runs of the session

VARIABLE table         \* run -> RunStatus, "none" before it is created

InProgress == {"queued", "running"}
Over == {"done", "failed", "cancelled"}

TableInit == table = [r \in 1..MaxRuns |-> "none"]

\* A run is created under the next number while none is in progress.
Create(r) ==
  /\ \A q \in 1..MaxRuns : table[q] \notin InProgress
  /\ table[r] = "none" /\ \A q \in 1..(r - 1) : table[q] # "none"
  /\ table' = [table EXCEPT ![r] = "queued"]

Start(r) ==
  /\ table[r] = "queued"
  /\ table' = [table EXCEPT ![r] = "running"]

Settle(r, s) ==
  /\ table[r] = "running"
  /\ table' = [table EXCEPT ![r] = s]

\* Startup reconciliation: whoever was to settle the run is dead.
Fail(r) ==
  /\ table[r] \in InProgress
  /\ table' = [table EXCEPT ![r] = "failed"]

TableNext ==
  \E r \in 1..MaxRuns : Create(r) \/ Start(r) \/ Fail(r) \/ \E s \in Over : Settle(r, s)

TableSpec == TableInit /\ [][TableNext]_table
=============================================================================
