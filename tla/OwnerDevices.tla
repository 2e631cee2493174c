---------------------------- MODULE OwnerDevices ----------------------------
(***************************************************************************)
(* One owner's devices as a launch sees them: one of them at most is       *)
(* active, a fresh enrolment replaces it, a revocation removes it, and no  *)
(* device returns (src/android_device_broker.py).  Module DeviceBroker     *)
(* implements this for each owner with requests that may fail half-way;    *)
(* the launch of module YouTubeLaunch builds on it.                        *)
(***************************************************************************)
CONSTANT Devices   \* enrolled device ids

VARIABLES
  active,    \* devices the table holds as active
  revoked    \* devices that were revoked or replaced

registry == <<active, revoked>>

RegistryInit == active = {} /\ revoked = {}

\* A fresh enrolment replaces the owner's device.
Enroll(d) ==
  /\ d \notin active \cup revoked
  /\ active' = {d}
  /\ revoked' = revoked \cup active

Revoke(d) ==
  /\ d \in active
  /\ active' = active \ {d}
  /\ revoked' = revoked \cup {d}

RegistryStep == [\E d \in Devices : Enroll(d) \/ Revoke(d)]_registry

=============================================================================
