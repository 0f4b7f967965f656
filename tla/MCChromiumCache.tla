-------------------------- MODULE MCChromiumCache --------------------------
(* Instances of ChromiumCache for TLC. *)
EXTENDS ChromiumCache, TLC

\* Processes are interchangeable, and files but for the binary.
Symmetry == Permutations(Procs) \cup Permutations(Files \ {Binary})

=============================================================================
