------------------------------ MODULE Registry ------------------------------
(***************************************************************************)
(* What the slabs of the engine promise their callers: a handle is issued  *)
(* once, names its entry until that entry is removed, and never names      *)
(* anything again.  Slab implements it.                                    *)
(***************************************************************************)
CONSTANTS Handles, Values, Absent

VARIABLES
  issued,   \* every handle ever issued
  holds     \* what each handle names, Absent when it names nothing

registryVars == <<issued, holds>>

RegistryInit ==
  /\ issued = {}
  /\ holds = [h \in Handles |-> Absent]

Issue(h, v) ==
  /\ h \in Handles \ issued
  /\ issued' = issued \cup {h}
  /\ holds' = [holds EXCEPT ![h] = v]

Overwrite(h, v) ==
  /\ holds[h] # Absent
  /\ holds' = [holds EXCEPT ![h] = v]
  /\ UNCHANGED issued

Withdraw(h) ==
  /\ holds[h] # Absent
  /\ holds' = [holds EXCEPT ![h] = Absent]
  /\ UNCHANGED issued

RegistryNext ==
  \E h \in Handles :
    \/ \E v \in Values : Issue(h, v) \/ Overwrite(h, v)
    \/ Withdraw(h)

RegistrySpec == RegistryInit /\ [][RegistryNext]_registryVars
=============================================================================
