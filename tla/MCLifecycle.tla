----------------------------- MODULE MCLifecycle ----------------------------
(* Small instances of DeviceLifecycle for TLC.                             *)
EXTENDS DeviceLifecycle, TLC

\* Devices are interchangeable.
Symmetry == Permutations(Device)
=============================================================================
