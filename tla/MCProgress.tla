------------------------------ MODULE MCProgress ------------------------------
(* Two runs, so that a run started after a reload meets one still working; *)
(* the first is seen in the middle, the second keeps the instance small.   *)
EXTENDS SyncProgress, TLC

CONSTANTS r1, r2

MCTotal == r1 :> 2 @@ r2 :> 1
===============================================================================
