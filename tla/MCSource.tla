------------------------------ MODULE MCSource ------------------------------
(* Small instances of SourceStatus for TLC.                                *)
EXTENDS SourceStatus, TLC

\* Ids are interchangeable; so are the callers other than the framework.
Symmetry == Permutations(Id) \cup Permutations(Key \ {AutoKey})
=============================================================================
