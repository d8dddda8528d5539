------------------------------- MODULE MCSink -------------------------------
(* Small instances of SinkStatus for TLC.                                  *)
EXTENDS SinkStatus, TLC

\* Ids are interchangeable; so are the callers other than the framework.
Symmetry == Permutations(DhId) \cup Permutations(Key \ {AutoKey})
=============================================================================
