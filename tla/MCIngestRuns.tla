---------------------------- MODULE MCIngestRuns ----------------------------
(* IngestRuns on small instances.  Run identifiers are interchangeable, and *)
(* so are the processes of a safety run in which nobody replays.            *)
EXTENDS IngestRuns, TLC

RunAndProcSymmetry == Permutations(RunId) \cup Permutations(Proc)

=============================================================================
