----------------------------- MODULE MCJobQueue -----------------------------
\* Small instances of the job queue for TLC.
EXTENDS JobQueue, TLC

\* Job ids and processes are interchangeable (safety runs only).
Symmetry == Permutations(Jobs) \cup Permutations(Procs)
=============================================================================
