--------------------------- MODULE MCRuntimeEngine ---------------------------
(* RuntimeEngine for model checking: calls and request ids are              *)
(* interchangeable.                                                          *)
EXTENDS RuntimeEngine, TLC

Symmetry == Permutations(Process) \cup Permutations(DispatchId)
==============================================================================
