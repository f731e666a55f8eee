------------------------------- MODULE MCQuotes -------------------------------
(* Symmetry of the threads is not used: the run checks liveness.           *)
EXTENDS Quotes
===============================================================================
