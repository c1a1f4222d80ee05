------------------------------- MODULE Faults -------------------------------
(***************************************************************************)
(* The failures the environment may still inject: a process that dies or   *)
(* is told to stop, a connection that breaks, a database or broker call    *)
(* that returns an error.  Every such step spends one unit of a budget, so *)
(* that a behaviour has finitely many of them.  MaxFaults is arbitrary: a  *)
(* safety property violated after any number of faults is violated for     *)
(* some value of it.                                                       *)
(***************************************************************************)
EXTENDS Naturals

CONSTANT MaxFaults

ASSUME MaxFaultsAssumption == MaxFaults \in Nat

VARIABLE faults

FaultsInit == faults = MaxFaults

Fault == faults > 0 /\ faults' = faults - 1

NoFault == UNCHANGED faults
=============================================================================
