----------------------- MODULE MCSystemOperationLock -----------------------
(* Instances of SystemOperationLock for TLC. *)
EXTENDS SystemOperationLock, TLC

\* Calls, operation ids and row ids are interchangeable.
Symmetry == Permutations(Workers) \cup Permutations(Fingerprints) \cup Permutations(RowIds)
=============================================================================
