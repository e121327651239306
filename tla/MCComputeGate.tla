--------------------------- MODULE MCComputeGate ---------------------------
(* Model values and bounds for ComputeGate. *)
EXTENDS ComputeGate

CONSTANTS t1, t2, t3

(* A job, and after it one with a gap between its two targets. *)
TwoJobs == <<{t1}, {t2, t3}>>
OneJob == <<{t1, t2, t3}>>
=============================================================================
