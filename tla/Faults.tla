------------------------------- MODULE Faults -------------------------------
(***************************************************************************)
(* The environment's failures, shared by every component.  FaultKinds      *)
(* names the failures an instance exercises and MaxFaults bounds how many  *)
(* of them one behaviour contains:                                         *)
(*   "crash"  a worker or the collector process dies between two steps     *)
(*            and the supervisor starts it again;                          *)
(*   "lost"   Azure applies a write but the response never arrives, so     *)
(*            the caller sees an error;                                    *)
(*   "db"     a Postgres statement fails and its effect does not happen;   *)
(*   "source" the collector cannot list one kind of assignment at all;     *)
(*   "sub"    the collector cannot list one subscription out of several;   *)
(*   "names"  Graph or ARM does not resolve some names, and the ids stay.  *)
(***************************************************************************)
EXTENDS Naturals

CONSTANTS
  FaultKinds,   \* the failures of this instance
  MaxFaults     \* at most this many of them in a behaviour

ASSUME FaultsAssumption ==
  /\ FaultKinds \subseteq {"crash", "lost", "db", "source", "sub", "names"}
  /\ MaxFaults \in Nat

VARIABLES
  faults,   \* failures so far
  losses    \* how many of them were lost responses; only properties read it

faultVars == <<faults, losses>>

FaultsTypeOK == faults \in 0..MaxFaults /\ losses \in 0..faults

FaultsInit == faults = 0 /\ losses = 0

NoFault == UNCHANGED faultVars

Fault(kind) ==
  /\ kind \in FaultKinds
  /\ faults < MaxFaults
  /\ faults' = faults + 1
  /\ losses' = IF kind = "lost" THEN losses + 1 ELSE losses
=============================================================================
