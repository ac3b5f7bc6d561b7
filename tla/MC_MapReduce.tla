---------------------------- MODULE MC_MapReduce ----------------------------
(* Instantiation of MapReduce for TLC: workers are model values. *)
EXTENDS MapReduce, TLC

\* The workers run identical code and are interchangeable.
WorkerSymmetry == Permutations(Workers)

=============================================================================
