------------------------------- MODULE Limits -------------------------------
(* The limits of rtdef.h that the services of ipc.c test their counters    *)
(* against.                                                                *)
EXTENDS Naturals

CONSTANTS SemMax,   \* RT_SEM_VALUE_MAX
          HoldMax   \* RT_MUTEX_HOLD_MAX

ASSUME LimitsAssumption == SemMax \in Nat /\ HoldMax \in Nat \ {0}
=============================================================================
