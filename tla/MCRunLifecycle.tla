----------------------------- MODULE MCRunLifecycle ----------------------------
(****************************************************************************)
(* RunLifecycle for TLC: two Runs and four calls, of which the observations *)
(* are interchangeable.                                                     *)
(****************************************************************************)
EXTENDS RunLifecycle, TLC

CONSTANTS r1, r2, read1, read2, edit, shell

\* Runs differ only by name, and so do the two observations.
Symmetry == Permutations({r1, r2}) \cup Permutations({read1, read2})
================================================================================
