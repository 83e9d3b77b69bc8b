---------------------------- MODULE MCTaskRunner ----------------------------
EXTENDS TaskRunner
\* The tasks of the runs: a caller waits for s, a may be deleted, and saving the result of
\* the one a run calls faulty may fail.
CONSTANTS s, a, b
=============================================================================
