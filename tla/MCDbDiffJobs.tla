---------------------------- MODULE MCDbDiffJobs ----------------------------
(* DbDiffJobs for TLC: model values for the jobs, seconds and databases.   *)
EXTENDS DbDiffJobs, TLC

\* Jobs are only ever compared for equality.
JobSymmetry == Permutations(Jobs)

=============================================================================
