------------------------------ MODULE MCExitRules ------------------------------
(***************************************************************************)
(* Five days with a weekend day among them; a close falls or not, under    *)
(* the stops of one average true range and above those of the other.       *)
(***************************************************************************)
EXTENDS ExitRules

MCMaxHold == [s \in Strategies \ {Hybrid} |-> IF s = Rsi2 THEN 1 ELSE 2]
================================================================================
