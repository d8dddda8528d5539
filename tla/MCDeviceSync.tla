---------------------------- MODULE MCDeviceSync ----------------------------
(* DeviceSync on small instances.                                          *)
EXTENDS DeviceSync, TLC

\* Used only in the run that checks invariants.
Symmetry == Permutations(Request) \cup Permutations(Socket)

=============================================================================
